---- MODULE Spec2Model ----
(***************************************************************************)
(* Model of the approval webhook server: the field extractor, the QR       *)
(* trigger resolver, the validation rules, the TTL cache, the event bus,   *)
(* the QR event handler / QR processor, the validation event handler and   *)
(* the webhook endpoint.                                                   *)
(*                                                                         *)
(* Python values are tagged records, so that values of different Python    *)
(* types can be compared: Str(s), Num(n), None, Rows(r), Missing.          *)
(* Amounts are integers counted in hundredths of a currency unit.          *)
(* Node names are sequences of characters (Python's `in` on strings is a   *)
(* substring search); node ids are sequences of characters too (the cache  *)
(* key keeps the first 8 of them).                                         *)
(***************************************************************************)
EXTENDS Integers, Sequences, FiniteSets, TLC

VARIABLES
    arg,                    \* input of the pure function being applied
    ret,                    \* its result ("pending" before the call)
    now,                    \* datetime.now(), in minutes
    qr_generation_cache,    \* CacheService.qr_generation_cache : key -> time
    validation_alert_cache, \* CacheService.validation_alert_cache : key -> time
    marked,                 \* history: key -> time of the latest mark call
    lookup,                 \* history: the latest lookup call and its answer
    handlers,               \* EventBus.handlers : event type -> list of handlers
    event_history,          \* EventBus.event_history
    pub,                    \* the publish call in flight (or the last one)
    cur,                    \* the QR handler / processor invocation in progress
    done                    \* history: outcomes of the finished invocations

fnVars    == <<arg, ret>>
cacheVars == <<now, qr_generation_cache, validation_alert_cache, marked, lookup>>
busVars   == <<handlers, event_history, pub>>
qrVars    == <<cur, done>>
vars      == <<arg, ret, now, qr_generation_cache, validation_alert_cache,
               marked, lookup, handlers, event_history, pub, cur, done>>

(***************************************************************************)
(* Bounds of the model.                                                    *)
(***************************************************************************)
MaxTasks  == 3      \* longest task list
MaxFields == 3      \* longest form document given to the field extractor
MaxRows   == 2      \* most rows of the accounting groups, most declared rounds
MaxTime   == 11     \* the clock stops here (minutes)

(***************************************************************************)
(* Python values.                                                          *)
(***************************************************************************)
None      == [t |-> "none"]
Missing   == [t |-> "missing"]          \* the key is not in the dict
Str(s)    == [t |-> "str", s |-> s]
Num(n)    == [t |-> "num", n |-> n]
Rows(r)   == [t |-> "rows", rows |-> r]

\* dict.get('value'): None when the key is absent
GetValue(field) == IF field.value = Missing THEN None ELSE field.value

\* A field name; template.format(i=i) fills the round index into a template.
Name(base)          == [base |-> base, i |-> 0]
Format(template, i) == [base |-> template, i |-> i]

Field(name, type, value) == [name |-> name, type |-> type, value |-> value]

(***************************************************************************)
(* FieldExtractor.extract_field_value                                      *)
(***************************************************************************)
RECURSIVE SearchGroup(_, _, _)
\* the loop over the sub-fields of one row, from index k
SearchGroup(field_group, field_name, k) ==
    IF k > Len(field_group) THEN Missing
    ELSE IF field_group[k].name = field_name THEN GetValue(field_group[k])
    ELSE SearchGroup(field_group, field_name, k + 1)

RECURSIVE SearchRows(_, _, _)
\* the loop over the rows of one fieldList, from index r
SearchRows(field_list_values, field_name, r) ==
    IF r > Len(field_list_values) THEN Missing
    ELSE LET hit == SearchGroup(field_list_values[r], field_name, 1)
         IN  IF hit # Missing THEN hit
             ELSE SearchRows(field_list_values, field_name, r + 1)

RECURSIVE SearchFields(_, _, _)
\* the loop over the top-level fields, from index k: a field whose name
\* matches is returned; otherwise, if it is a fieldList, its rows are searched
\* before the next top-level field is looked at
SearchFields(form_data, field_name, k) ==
    IF k > Len(form_data) THEN None
    ELSE LET field == form_data[k]
         IN  IF field.name = field_name THEN GetValue(field)
             ELSE LET hit == IF field.type = "fieldList" /\ field.value.t = "rows"
                             THEN SearchRows(field.value.rows, field_name, 1)
                             ELSE Missing
                  IN  IF hit # Missing THEN hit
                      ELSE SearchFields(form_data, field_name, k + 1)

ExtractFieldValue(form_data, field_name) == SearchFields(form_data, field_name, 1)

(***************************************************************************)
(* FieldExtractor.extract_all_values_from_fieldlist and                    *)
(* FieldExtractor.extract_field_from_fieldlist                             *)
(***************************************************************************)
RECURSIVE GroupValues(_, _, _)
\* the values of every sub-field of one row that carries the target name
GroupValues(field_group, target_field_name, k) ==
    IF k > Len(field_group) THEN <<>>
    ELSE (IF field_group[k].name = target_field_name
          THEN <<GetValue(field_group[k])>> ELSE <<>>)
         \o GroupValues(field_group, target_field_name, k + 1)

RECURSIVE RowsValues(_, _, _)
RowsValues(field_list_values, target_field_name, r) ==
    IF r > Len(field_list_values) THEN <<>>
    ELSE GroupValues(field_list_values[r], target_field_name, 1)
         \o RowsValues(field_list_values, target_field_name, r + 1)

RECURSIVE FindFieldList(_, _, _)
\* index of the first top-level fieldList carrying the name, 0 when none
FindFieldList(form_data, fieldlist_name, k) ==
    IF k > Len(form_data) THEN 0
    ELSE IF form_data[k].name = fieldlist_name /\ form_data[k].type = "fieldList"
         THEN k
         ELSE FindFieldList(form_data, fieldlist_name, k + 1)

\* field.get('value', []) of a well-formed fieldList
FieldListRows(field) == IF field.value.t = "rows" THEN field.value.rows ELSE <<>>

ExtractAllValuesFromFieldlist(form_data, fieldlist_name, target_field_name) ==
    LET k == FindFieldList(form_data, fieldlist_name, 1)
    IN  IF k = 0 THEN <<>>
        ELSE RowsValues(FieldListRows(form_data[k]), target_field_name, 1)

ExtractFieldFromFieldlist(form_data, fieldlist_name, target_field_name) ==
    LET k == FindFieldList(form_data, fieldlist_name, 1)
    IN  IF k = 0 THEN None
        ELSE LET hit == SearchRows(FieldListRows(form_data[k]), target_field_name, 1)
             IN  IF hit = Missing THEN None ELSE hit

(***************************************************************************)
(* QRProcessor._find_active_qr_trigger                                     *)
(***************************************************************************)
\* Python's `sub in name` on strings
IsSubstring(sub, name) ==
    \E k \in 0..(Len(name) - Len(sub)) : SubSeq(name, k + 1, k + Len(sub)) = sub

RECURSIVE NamesInOrder(_, _)
\* the keys of nodes_by_name, in insertion order (first occurrence of a name)
NamesInOrder(task_list, k) ==
    IF k = 0 THEN <<>>
    ELSE LET before == NamesInOrder(task_list, k - 1)
         IN  IF \E j \in 1..Len(before) : before[j] = task_list[k].node_name
             THEN before
             ELSE Append(before, task_list[k].node_name)

\* nodes_by_name[name]
NodesByName(task_list, name) ==
    SelectSeq(task_list, LAMBDA task : task.node_name = name)

RECURSIVE ExtendMatching(_, _, _, _)
\* for name, nodes in nodes_by_name.items(): matching_nodes.extend(nodes)
ExtendMatching(task_list, names, node_name_contains, k) ==
    IF k > Len(names) THEN <<>>
    ELSE (IF IsSubstring(node_name_contains, names[k])
          THEN NodesByName(task_list, names[k]) ELSE <<>>)
         \o ExtendMatching(task_list, names, node_name_contains, k + 1)

MatchingNodes(task_list, node_name_contains) ==
    ExtendMatching(task_list, NamesInOrder(task_list, Len(task_list)),
                   node_name_contains, 1)

NoTrigger == [found |-> FALSE]

\* the test of one (trigger_config, node, i) of the inner loop
RoundIsActive(trigger_config, node, i, form_data) ==
    /\ node.status = trigger_config.status
    /\ ExtractFieldValue(form_data, Format(trigger_config.yes_no_field_template, i))
           = Str("Yes")

TriggerOf(trigger_config, node, i, form_data) ==
    [found         |-> TRUE,
     amount        |-> ExtractFieldValue(form_data,
                           Format(trigger_config.amount_field_template, i)),
     node_id       |-> node.node_id,
     node_name     |-> node.node_name,
     qr_type       |-> trigger_config.qr_type,
     field_used    |-> Format(trigger_config.amount_field_template, i),
     trigger_round |-> i]

RECURSIVE ScanNodesCountingActive(_, _, _, _)
\* ScanNodes with the bug that a task in another status does not consume a
\* round index: it is dropped from the list before the rounds are numbered
ScanNodesCountingActive(trigger_config, matching_nodes, form_data, i) ==
    LET kept == SelectSeq(matching_nodes,
                          LAMBDA node : node.status = trigger_config.status)
    IN  IF i > Len(kept) THEN NoTrigger
        ELSE IF RoundIsActive(trigger_config, kept[i], i, form_data)
             THEN TriggerOf(trigger_config, kept[i], i, form_data)
             ELSE ScanNodesCountingActive(trigger_config, kept, form_data, i + 1)

RECURSIVE ScanNodes(_, _, _, _)
\* for i, node in enumerate(matching_nodes, 1), from index i
ScanNodes(trigger_config, matching_nodes, form_data, i) ==
    IF i > Len(matching_nodes) THEN NoTrigger
    ELSE IF RoundIsActive(trigger_config, matching_nodes[i], i, form_data)
         THEN TriggerOf(trigger_config, matching_nodes[i], i, form_data)
         ELSE ScanNodes(trigger_config, matching_nodes, form_data, i + 1)

RECURSIVE ScanConfigsLastWins(_, _, _, _)
\* ScanConfigs with the bug that a later configuration overrides an earlier one
ScanConfigsLastWins(task_list, form_data, qr_trigger_configs, c) ==
    IF c > Len(qr_trigger_configs) THEN NoTrigger
    ELSE LET later == ScanConfigsLastWins(task_list, form_data, qr_trigger_configs, c + 1)
             hit == ScanNodes(qr_trigger_configs[c],
                        MatchingNodes(task_list, qr_trigger_configs[c].node_name_contains),
                        form_data, 1)
         IN  IF later.found THEN later ELSE hit

RECURSIVE ScanConfigs(_, _, _, _)
\* for trigger_config in qr_trigger_configs, from index c
ScanConfigs(task_list, form_data, qr_trigger_configs, c) ==
    IF c > Len(qr_trigger_configs) THEN NoTrigger
    ELSE LET hit == ScanNodes(qr_trigger_configs[c],
                        MatchingNodes(task_list, qr_trigger_configs[c].node_name_contains),
                        form_data, 1)
         IN  IF hit.found THEN hit
             ELSE ScanConfigs(task_list, form_data, qr_trigger_configs, c + 1)

FindActiveQrTrigger(task_list, form_data, qr_trigger_configs) ==
    ScanConfigs(task_list, form_data, qr_trigger_configs, 1)

(***************************************************************************)
(* Idle values: the parts of the state a specification does not use.       *)
(***************************************************************************)
NotCalled   == [done |-> FALSE]
Returned(v) == [done |-> TRUE, value |-> v]
NoLookup    == [cache |-> "none"]
NoPublish   == [phase |-> "idle"]
NoInvocation == [pc |-> "idle"]

FnIdle    == arg = [fn |-> "none"] /\ ret = NotCalled
EmptyMap  == [k \in {} |-> 0]          \* an empty dict
CacheIdle == /\ now = 0
             /\ qr_generation_cache = EmptyMap
             /\ validation_alert_cache = EmptyMap
             /\ marked = EmptyMap
             /\ lookup = NoLookup
BusIdle   == handlers = EmptyMap /\ event_history = <<>> /\ pub = NoPublish
QrIdle    == cur = NoInvocation /\ done = <<>>

(***************************************************************************)
(* Inputs of the trigger resolver: task lists of up to MaxTasks tasks      *)
(* named "ca" (cashier a), "cb" (cashier b) or "m" (manager), a form with  *)
(* the round fields of both trigger configurations, and the list of        *)
(* trigger configurations of the workflow.                                 *)
(***************************************************************************)
CashierA == <<"c", "a">>
CashierB == <<"c", "b">>
Manager  == <<"m">>
NodeNames == {CashierA, CashierB, Manager}
TaskStatuses == {"PENDING", "APPROVED"}

\* a cashier task in either status, a manager task (its status is never read
\* by a configuration that looks for cashiers)
TaskKinds == ({CashierA, CashierB} \X TaskStatuses) \cup {<<Manager, "APPROVED">>}

Digits == <<"1", "2", "3", "4", "5", "6">>
\* the node id of the k-th task: 10 characters, the 8th tells them apart
NodeIdOf(k) == <<"n", "o", "d", "e", "0", "0", "0", Digits[k], "a", "b">>

TaskLists ==
    UNION { { [k \in 1..m |-> [node_id   |-> NodeIdOf(k),
                               node_name |-> f[k][1],
                               status    |-> f[k][2]]]
              : f \in [1..m -> TaskKinds] }
            : m \in 0..MaxTasks }

AdvanceConfig ==
    [node_name_contains    |-> <<"c">>,
     status                |-> "PENDING",
     yes_no_field_template |-> "Pay round {i}: Y/N",
     amount_field_template |-> "Amount round {i}:",
     qr_type               |-> "advance"]
PaymentConfig ==
    [node_name_contains    |-> CashierB,
     status                |-> "APPROVED",
     yes_no_field_template |-> "Settle round {i}: Y/N",
     amount_field_template |-> "Settle amount {i}:",
     qr_type               |-> "payment"]
TriggerConfigLists ==
    {<<AdvanceConfig>>, <<AdvanceConfig, PaymentConfig>>, <<PaymentConfig, AdvanceConfig>>}

\* the amount typed into round i of a trigger configuration, in hundredths
RoundAmount(trigger_config, i) ==
    Num((IF trigger_config.qr_type = "advance" THEN 50000000 ELSE 70000000) + i)

RECURSIVE RoundFields(_, _, _)
\* the fields of rounds i..MaxTasks of one configuration; answer[i] is the
\* value of the yes/no field of round i, "absent" when the form has none
RoundFields(trigger_config, answer, i) ==
    IF i > MaxTasks THEN <<>>
    ELSE (IF answer[i] = "absent" THEN <<>>
          ELSE <<Field(Format(trigger_config.yes_no_field_template, i), "radioV2",
                       Str(answer[i]))>>)
         \o <<Field(Format(trigger_config.amount_field_template, i), "amount",
                    RoundAmount(trigger_config, i))>>
         \o RoundFields(trigger_config, answer, i + 1)

\* round 1 is answered "Yes" or "No"; a later round is answered "Yes" or has
\* no yes/no field yet
AdvanceAnswers ==
    { a \in [1..MaxTasks -> {"Yes", "No", "absent"}] :
        \A i \in 1..MaxTasks : (a[i] = "No") <=> (i = 1 /\ a[i] # "Yes") }
PaymentAnswers ==
    { [i \in 1..MaxTasks |-> v] : v \in {"Yes", "absent"} }

TriggerForms ==
    { RoundFields(AdvanceConfig, a, 1) \o RoundFields(PaymentConfig, b, 1)
        : a \in AdvanceAnswers, b \in PaymentAnswers }

TriggerInput(tl, fd, cf) ==
    [fn |-> "find_active_qr_trigger", task_list |-> tl, form_data |-> fd,
     qr_trigger_configs |-> cf]

CallFindActiveQrTrigger ==
    /\ arg.fn = "find_active_qr_trigger"
    /\ ~ret.done
    /\ ret' = Returned(FindActiveQrTrigger(arg.task_list, arg.form_data,
                                          arg.qr_trigger_configs))
    /\ UNCHANGED <<arg, cacheVars, busVars, qrVars>>

InitTrigger == /\ \E tl \in TaskLists, fd \in TriggerForms, cf \in TriggerConfigLists :
                     arg = TriggerInput(tl, fd, cf)
               /\ ret = NotCalled
               /\ CacheIdle /\ BusIdle /\ QrIdle
NextTrigger == CallFindActiveQrTrigger
SpecTrigger == InitTrigger /\ [][NextTrigger]_vars

(***************************************************************************)
(* Inputs of the field extractor: documents of up to MaxFields fields      *)
(* taken from a pool with a scalar "X", a scalar "Y", repeating groups "G" *)
(* whose rows hold sub-fields "X" and "Y", and a malformed group.          *)
(***************************************************************************)
FieldPool ==
    { Field(Name("X"), "text", Str("top")),
      Field(Name("Y"), "text", Str("y")),
      Field(Name("G"), "fieldList",
            Rows(<< <<Field(Name("X"), "text", Str("nested"))>> >>)),
      Field(Name("G"), "fieldList",
            Rows(<< <<Field(Name("Y"), "text", Str("row1"))>>,
                    <<Field(Name("Y"), "text", Str("row2")),
                      Field(Name("X"), "text", Str("nested2"))>> >>)),
      Field(Name("G"), "fieldList", Str("not a list")) }

FieldInputs ==
    { [fn |-> "extract_field_value", form_data |-> fd, field_name |-> Name(n)]
        : fd \in UNION { [1..m -> FieldPool] : m \in 0..MaxFields },
          n \in {"X", "Y", "Z"} }

CallExtractFieldValue ==
    /\ arg.fn = "extract_field_value"
    /\ ~ret.done
    /\ ret' = Returned(ExtractFieldValue(arg.form_data, arg.field_name))
    /\ UNCHANGED <<arg, cacheVars, busVars, qrVars>>

InitField == /\ arg \in FieldInputs
             /\ ret = NotCalled
             /\ CacheIdle /\ BusIdle /\ QrIdle
NextField == CallExtractFieldValue
SpecField == InitField /\ [][NextField]_vars

(***************************************************************************)
(* ValidationService: the amount comparison rules.                         *)
(* float(v): a Num parses, anything else raises ValueError or TypeError.   *)
(***************************************************************************)
ACCOUNTING_ADVANCE_INFO  == Name("Ke toan - Thong tin tam ung")
ACCOUNTING_PAYMENT_INFO  == Name("Ke toan - Thong tin thanh toan")
EXPENDITURE_AMOUNT       == Name("So tien chi")
REMAINING_PAYMENT_AMOUNT == Name("So tien con phai thanh toan")
PAYMENT_AMOUNT           == Name("So tien thanh toan")
UserAdvanceTemplate      == "So tien tam ung lan {i}:"

Tolerance     == 1      \* 0.01, in hundredths
AdvanceRounds == 4      \* for i in range(1, 5)

Parses(v) == v.t = "num"
Abs(x)    == IF x < 0 THEN -x ELSE x

Result(type, status, message) ==
    [validation_type |-> type, status |-> status, message |-> message]

\* the body of the loop of validate_advance_amount_mismatch for round i:
\* the list of results the round adds
AdvanceRound(form_data, accountant_expenditures, i) ==
    LET user_advance_value ==
            ExtractFieldValue(form_data, Format(UserAdvanceTemplate, i))
    IN  IF (i - 1) >= Len(accountant_expenditures) \/ user_advance_value = None
        THEN <<>>
        ELSE LET accountant_expenditure_value == accountant_expenditures[i]
             IN  IF ~(Parses(user_advance_value) /\ Parses(accountant_expenditure_value))
                 THEN <<Result("ADVANCE_AMOUNT_MISMATCH", "INVALID",
                               [text |-> "format", i |-> i])>>
                 ELSE IF Abs(user_advance_value.n - accountant_expenditure_value.n)
                             >= Tolerance
                 THEN <<Result("ADVANCE_AMOUNT_MISMATCH", "INVALID",
                               [text |-> "mismatch", i |-> i,
                                user |-> user_advance_value.n,
                                accountant |-> accountant_expenditure_value.n])>>
                 ELSE <<>>

RECURSIVE AdvanceLoop(_, _, _)
AdvanceLoop(form_data, accountant_expenditures, i) ==
    IF i > AdvanceRounds THEN <<>>
    ELSE AdvanceRound(form_data, accountant_expenditures, i)
         \o AdvanceLoop(form_data, accountant_expenditures, i + 1)

ValidateAdvanceAmountMismatch(form_data) ==
    LET accountant_expenditures ==
            ExtractAllValuesFromFieldlist(form_data, ACCOUNTING_ADVANCE_INFO,
                                          EXPENDITURE_AMOUNT)
        results == AdvanceLoop(form_data, accountant_expenditures, 1)
        found_data ==
            \E i \in 1..AdvanceRounds :
                ExtractFieldValue(form_data, Format(UserAdvanceTemplate, i)) # None
    IN  IF ~found_data
        THEN <<Result("ADVANCE_AMOUNT_MISMATCH", "SKIPPED", [text |-> "no data"])>>
        ELSE IF results = <<>>
        THEN <<Result("ADVANCE_AMOUNT_MISMATCH", "VALID", [text |-> "all match"])>>
        ELSE results

\* the payment rule with the bug of preferring the payment amount to the
\* remaining payment amount
ValidatePaymentPreferringPaid(form_data) ==
    LET payment_info_amount ==
            ExtractFieldFromFieldlist(form_data, ACCOUNTING_PAYMENT_INFO,
                                      EXPENDITURE_AMOUNT)
        amount_due  == ExtractFieldValue(form_data, REMAINING_PAYMENT_AMOUNT)
        amount_paid == ExtractFieldValue(form_data, PAYMENT_AMOUNT)
        compare_amount == IF amount_paid # None THEN amount_paid ELSE amount_due
        compare_field_name ==
            IF amount_paid # None THEN PAYMENT_AMOUNT ELSE REMAINING_PAYMENT_AMOUNT
    IN  IF payment_info_amount = None \/ compare_amount = None
        THEN Result("PAYMENT_AMOUNT_MISMATCH", "SKIPPED", [text |-> "no data"])
        ELSE IF ~(Parses(payment_info_amount) /\ Parses(compare_amount))
        THEN Result("PAYMENT_AMOUNT_MISMATCH", "ERROR", [text |-> "format"])
        ELSE IF Abs(payment_info_amount.n - compare_amount.n) < Tolerance
        THEN Result("PAYMENT_AMOUNT_MISMATCH", "VALID",
                    [text |-> "consistent", amount |-> payment_info_amount.n])
        ELSE Result("PAYMENT_AMOUNT_MISMATCH", "INVALID",
                    [text |-> "mismatch", field |-> compare_field_name,
                     payment_info_amount |-> payment_info_amount.n,
                     compare_amount |-> compare_amount.n])

ValidatePaymentAmountMismatch(form_data) ==
    LET payment_info_amount ==
            ExtractFieldFromFieldlist(form_data, ACCOUNTING_PAYMENT_INFO,
                                      EXPENDITURE_AMOUNT)
        amount_due  == ExtractFieldValue(form_data, REMAINING_PAYMENT_AMOUNT)
        amount_paid == ExtractFieldValue(form_data, PAYMENT_AMOUNT)
        compare_amount == IF amount_due # None THEN amount_due ELSE amount_paid
        compare_field_name ==
            IF amount_due # None THEN REMAINING_PAYMENT_AMOUNT ELSE PAYMENT_AMOUNT
    IN  IF payment_info_amount = None \/ compare_amount = None
        THEN Result("PAYMENT_AMOUNT_MISMATCH", "SKIPPED", [text |-> "no data"])
        ELSE IF ~(Parses(payment_info_amount) /\ Parses(compare_amount))
        THEN Result("PAYMENT_AMOUNT_MISMATCH", "ERROR", [text |-> "format"])
        ELSE IF Abs(payment_info_amount.n - compare_amount.n) < Tolerance
        THEN Result("PAYMENT_AMOUNT_MISMATCH", "VALID",
                    [text |-> "consistent", amount |-> payment_info_amount.n])
        ELSE Result("PAYMENT_AMOUNT_MISMATCH", "INVALID",
                    [text |-> "mismatch", field |-> compare_field_name,
                     payment_info_amount |-> payment_info_amount.n,
                     compare_amount |-> compare_amount.n])

(***************************************************************************)
(* Inputs of the validation rules: an accounting-advance group of up to    *)
(* MaxRows rows and the declared advance amounts of rounds 1..MaxRows; an  *)
(* accounting-payment group and the two payment amounts.                   *)
(***************************************************************************)
Amounts == {Num(10000), Num(10001), Num(10002)}

\* a row of an accounting group: its expenditure amount, or no such field
AccountingRow(v) ==
    IF v = Missing THEN <<Field(Name("Ghi chu"), "text", Str("note"))>>
    ELSE <<Field(EXPENDITURE_AMOUNT, "amount", v)>>

AccountingGroups(name, cells) ==
    { <<>> } \cup
    UNION { { <<Field(name, "fieldList", Rows([r \in 1..m |-> AccountingRow(f[r])]))>>
              : f \in [1..m -> cells] }
            : m \in 1..MaxRows }

RECURSIVE DeclaredFields(_, _)
\* the declared advance amounts of rounds i..MaxRows; Missing: no such field
DeclaredFields(declared, i) ==
    IF i > MaxRows THEN <<>>
    ELSE (IF declared[i] = Missing THEN <<>>
          ELSE <<Field(Format(UserAdvanceTemplate, i), "amount", declared[i])>>)
         \o DeclaredFields(declared, i + 1)

ScalarField(name, v) == IF v = Missing THEN <<>> ELSE <<Field(name, "amount", v)>>

AdvanceInputs ==
    { [fn |-> "validate_advance_amount_mismatch",
       form_data |-> DeclaredFields(d, 1) \o g]
        : d \in [1..MaxRows -> {Missing, Num(10000), Str("abc")}],
          g \in AccountingGroups(ACCOUNTING_ADVANCE_INFO,
                                 Amounts \cup {None, Missing}) }

PaymentInputs ==
    { [fn |-> "validate_payment_amount_mismatch",
       form_data |-> g \o ScalarField(REMAINING_PAYMENT_AMOUNT, due)
                       \o ScalarField(PAYMENT_AMOUNT, paid)]
        : g \in AccountingGroups(ACCOUNTING_PAYMENT_INFO, Amounts \cup {None}),
          due \in {Missing, None, Num(10000)},
          paid \in {Missing, Num(10000), Num(10002), Str("abc")} }

CallValidateAdvance ==
    /\ arg.fn = "validate_advance_amount_mismatch"
    /\ ~ret.done
    /\ ret' = Returned(ValidateAdvanceAmountMismatch(arg.form_data))
    /\ UNCHANGED <<arg, cacheVars, busVars, qrVars>>

CallValidatePayment ==
    /\ arg.fn = "validate_payment_amount_mismatch"
    /\ ~ret.done
    /\ ret' = Returned(ValidatePaymentAmountMismatch(arg.form_data))
    /\ UNCHANGED <<arg, cacheVars, busVars, qrVars>>

InitValidation == /\ arg \in AdvanceInputs \cup PaymentInputs
                  /\ ret = NotCalled
                  /\ CacheIdle /\ BusIdle /\ QrIdle
NextValidation == CallValidateAdvance \/ CallValidatePayment
SpecValidation == InitValidation /\ [][NextValidation]_vars

(***************************************************************************)
(* FieldExtractor.extract_all_values_from_fieldlist as a function of the   *)
(* form.  The rows of the accounting-advance group carry the amount field  *)
(* once, twice or not at all; another group may stand in front of it.      *)
(***************************************************************************)
RowKinds ==
    { AccountingRow(Num(10000)), AccountingRow(Num(10002)), AccountingRow(None),
      AccountingRow(Missing),
      AccountingRow(Num(10000)) \o AccountingRow(Num(10001)) }
RowLists == UNION { [1..m -> RowKinds] : m \in 0..MaxRows }
FieldListInputs ==
    { [fn |-> "extract_all_values_from_fieldlist",
       form_data |-> front \o <<Field(ACCOUNTING_ADVANCE_INFO, "fieldList", Rows(rows))>>,
       fieldlist_name |-> ACCOUNTING_ADVANCE_INFO,
       target_field_name |-> EXPENDITURE_AMOUNT]
        : rows \in RowLists,
          front \in { <<>>,
                      <<Field(ACCOUNTING_PAYMENT_INFO, "fieldList",
                              Rows(<<AccountingRow(Num(10001))>>))>> } }
    \cup { [fn |-> "extract_all_values_from_fieldlist", form_data |-> <<>>,
            fieldlist_name |-> ACCOUNTING_ADVANCE_INFO,
            target_field_name |-> EXPENDITURE_AMOUNT] }

CallExtractAllValuesFromFieldlist ==
    /\ arg.fn = "extract_all_values_from_fieldlist"
    /\ ~ret.done
    /\ ret' = Returned(ExtractAllValuesFromFieldlist(arg.form_data, arg.fieldlist_name,
                                                     arg.target_field_name))
    /\ UNCHANGED <<arg, cacheVars, busVars, qrVars>>

InitFieldList == /\ arg \in FieldListInputs
                 /\ ret = NotCalled
                 /\ CacheIdle /\ BusIdle /\ QrIdle
NextFieldList == CallExtractAllValuesFromFieldlist
SpecFieldList == InitFieldList /\ [][NextFieldList]_vars

(***************************************************************************)
(* CacheService.  Strings are sequences of characters, so that a cache key *)
(* is the concatenation the f-string builds.  Time is counted in minutes.  *)
(***************************************************************************)
QR_CACHE_DURATION_MINUTES  == 5
ValidationCacheMinutes     == 10    \* cache_duration_minutes=10 at the call site
NodeIdKeep                 == 8     \* node_id[:8]

\* dict operations
Put(d, k, v)  == [x \in DOMAIN d \cup {k} |-> IF x = k THEN v ELSE d[x]]
Delete(d, k)  == [x \in DOMAIN d \ {k} |-> d[x]]

\* short_node_id = node_id[:8] if len(node_id) > 8 else node_id
ShortNodeId(node_id) ==
    IF Len(node_id) > NodeIdKeep THEN SubSeq(node_id, 1, NodeIdKeep) ELSE node_id

\* f"{instance_code}_{short_node_id}_{qr_type}"
GenerateCacheKey(instance_code, node_id, qr_type) ==
    instance_code \o <<"_">> \o ShortNodeId(node_id) \o <<"_">> \o qr_type

\* f"validation_{instance_code}_{validation_type}"
GenerateValidationCacheKey(instance_code, validation_type) ==
    <<"validation", "_">> \o instance_code \o <<"_">> \o validation_type

\* time_diff > timedelta(minutes=cache_duration_minutes), with the bug of
\* an entry expiring already when the duration has just elapsed
ExpiredAtDuration(stored_time, current_time, cache_duration_minutes) ==
    current_time - stored_time >= cache_duration_minutes

\* time_diff > timedelta(minutes=cache_duration_minutes)
Expired(stored_time, current_time, cache_duration_minutes) ==
    current_time - stored_time > cache_duration_minutes

\* the answer of is_qr_recently_generated / is_validation_alert_recently_sent
\* on cache dict d
RecentlySeen(d, cache_key, current_time, cache_duration_minutes) ==
    /\ cache_key \in DOMAIN d
    /\ ~Expired(d[cache_key], current_time, cache_duration_minutes)

\* the lookup with the bug of sweeping every expired entry of the dict
AfterLookupSweeping(d, cache_key, current_time, cache_duration_minutes) ==
    [x \in {y \in DOMAIN d :
                ~Expired(d[y], current_time, cache_duration_minutes)} |-> d[x]]

\* the cache dict after the lookup: an expired entry is deleted
AfterLookup(d, cache_key, current_time, cache_duration_minutes) ==
    IF /\ cache_key \in DOMAIN d
       /\ Expired(d[cache_key], current_time, cache_duration_minutes)
    THEN Delete(d, cache_key)
    ELSE d

\* the mark with the bug of keeping the timestamp of a key already present
AfterMarkKeepingFirst(d, cache_key, current_time) ==
    IF cache_key \in DOMAIN d THEN d ELSE Put(d, cache_key, current_time)

\* mark_qr_as_generated / mark_validation_alert_as_sent on cache dict d
AfterMark(d, cache_key, current_time) == Put(d, cache_key, current_time)

(***************************************************************************)
(* The cache driven through its public methods.  `marked` remembers, for   *)
(* each key, when it was last marked (forgotten by clear_cache); `lookup`  *)
(* is the lookup call just made and its answer.                            *)
(***************************************************************************)
InstanceCodes   == {<<"I", "1">>}
CacheNodeIds    == {NodeIdOf(1), NodeIdOf(2)}
QrTypes         == {<<"advance">>}
ValidationTypes == {<<"ADVANCE_AMOUNT_MISMATCH">>}
NeverMarked     == 0 - 1

LastMarked(space, cache_key) ==
    IF <<space, cache_key>> \in DOMAIN marked THEN marked[<<space, cache_key>>]
    ELSE NeverMarked

Tick ==
    /\ now < MaxTime
    /\ now' = now + 1
    /\ lookup' = NoLookup
    /\ UNCHANGED <<qr_generation_cache, validation_alert_cache, marked>>

\* the mark with the bug of one dict shared by both kinds of key
MarkQrAsGeneratedInSharedDict(instance_code, node_id, qr_type) ==
    LET cache_key == GenerateCacheKey(instance_code, node_id, qr_type)
    IN  /\ qr_generation_cache' = AfterMark(qr_generation_cache, cache_key, now)
        /\ validation_alert_cache' = AfterMark(validation_alert_cache, cache_key, now)
        /\ marked' = Put(marked, <<"qr", cache_key>>, now)
        /\ lookup' = NoLookup
        /\ UNCHANGED now

MarkQrAsGenerated(instance_code, node_id, qr_type) ==
    LET cache_key == GenerateCacheKey(instance_code, node_id, qr_type)
    IN  /\ qr_generation_cache' = AfterMark(qr_generation_cache, cache_key, now)
        /\ marked' = Put(marked, <<"qr", cache_key>>, now)
        /\ lookup' = NoLookup
        /\ UNCHANGED <<now, validation_alert_cache>>

MarkValidationAlertAsSent(instance_code, validation_type) ==
    LET cache_key == GenerateValidationCacheKey(instance_code, validation_type)
    IN  /\ validation_alert_cache' = AfterMark(validation_alert_cache, cache_key, now)
        /\ marked' = Put(marked, <<"validation", cache_key>>, now)
        /\ lookup' = NoLookup
        /\ UNCHANGED <<now, qr_generation_cache>>

IsQrRecentlyGenerated(instance_code, node_id, qr_type, cache_duration_minutes) ==
    LET cache_key == GenerateCacheKey(instance_code, node_id, qr_type)
    IN  /\ qr_generation_cache' =
               AfterLookup(qr_generation_cache, cache_key, now, cache_duration_minutes)
        /\ lookup' = [cache    |-> "qr",
                      key      |-> cache_key,
                      duration |-> cache_duration_minutes,
                      at       |-> now,
                      markedAt |-> LastMarked("qr", cache_key),
                      result   |-> RecentlySeen(qr_generation_cache, cache_key, now,
                                                cache_duration_minutes)]
        /\ UNCHANGED <<now, validation_alert_cache, marked>>

IsValidationAlertRecentlySent(instance_code, validation_type, cache_duration_minutes) ==
    LET cache_key == GenerateValidationCacheKey(instance_code, validation_type)
    IN  /\ validation_alert_cache' =
               AfterLookup(validation_alert_cache, cache_key, now, cache_duration_minutes)
        /\ lookup' = [cache    |-> "validation",
                      key      |-> cache_key,
                      duration |-> cache_duration_minutes,
                      at       |-> now,
                      markedAt |-> LastMarked("validation", cache_key),
                      result   |-> RecentlySeen(validation_alert_cache, cache_key, now,
                                                cache_duration_minutes)]
        /\ UNCHANGED <<now, qr_generation_cache, marked>>

ClearCache ==
    /\ DOMAIN qr_generation_cache \cup DOMAIN validation_alert_cache # {}
    /\ qr_generation_cache' = EmptyMap
    /\ validation_alert_cache' = EmptyMap
    /\ marked' = EmptyMap
    /\ lookup' = NoLookup
    /\ UNCHANGED now

InitCache == CacheIdle /\ FnIdle /\ BusIdle /\ QrIdle
NextCache ==
    \/ (Tick /\ UNCHANGED <<fnVars, busVars, qrVars>>)
    \/ (ClearCache /\ UNCHANGED <<fnVars, busVars, qrVars>>)
    \/ \E ic \in InstanceCodes, n \in CacheNodeIds, q \in QrTypes :
          /\ (\/ MarkQrAsGenerated(ic, n, q)
              \/ IsQrRecentlyGenerated(ic, n, q, QR_CACHE_DURATION_MINUTES))
          /\ UNCHANGED <<fnVars, busVars, qrVars>>
    \/ \E ic \in InstanceCodes, v \in ValidationTypes :
          /\ (\/ MarkValidationAlertAsSent(ic, v)
              \/ IsValidationAlertRecentlySent(ic, v, ValidationCacheMinutes))
          /\ UNCHANGED <<fnVars, busVars, qrVars>>
SpecCache == InitCache /\ [][NextCache]_vars

(***************************************************************************)
(* The cache on keys that read the same in both dicts: the QR key of the   *)
(* instance "validation", node "I1", type "advance" and the validation key *)
(* of instance "I1", type "advance" are both "validation_I1_advance".      *)
(***************************************************************************)
TwinQrKey         == [instance_code |-> <<"validation">>, node_id |-> <<"I", "1">>,
                      qr_type |-> <<"advance">>]
TwinValidationKey == [instance_code |-> <<"I", "1">>,
                      validation_type |-> <<"advance">>]
InitNamespace == InitCache
NextNamespace ==
    \/ (Tick /\ UNCHANGED <<fnVars, busVars, qrVars>>)
    \/ (ClearCache /\ UNCHANGED <<fnVars, busVars, qrVars>>)
    \/ \E k \in {TwinQrKey,
                  [TwinQrKey EXCEPT !.instance_code = <<"I", "1">>]} :
          /\ (\/ MarkQrAsGenerated(k.instance_code, k.node_id, k.qr_type)
              \/ IsQrRecentlyGenerated(k.instance_code, k.node_id, k.qr_type,
                                       QR_CACHE_DURATION_MINUTES))
          /\ UNCHANGED <<fnVars, busVars, qrVars>>
    \/ \E k \in {TwinValidationKey} :
          /\ (\/ MarkValidationAlertAsSent(k.instance_code, k.validation_type)
              \/ IsValidationAlertRecentlySent(k.instance_code, k.validation_type,
                                               ValidationCacheMinutes))
          /\ UNCHANGED <<fnVars, busVars, qrVars>>
SpecNamespace == InitNamespace /\ [][NextNamespace]_vars

(***************************************************************************)
(* The QR dict with a history of its calls: arg.marks remembers when each  *)
(* (instance, node, type) tuple was last marked and arg.asked is the tuple *)
(* of the lookup just made.  Two of the node ids share their first eight   *)
(* characters.                                                             *)
(***************************************************************************)
LongNodeIds ==
    {<<"n", "o", "d", "e", "0", "0", "0", "1", "a">>,
     <<"n", "o", "d", "e", "0", "0", "0", "1", "b">>,
     <<"n", "o", "d", "e", "0", "0", "0", "2", "a">>}
QrTuples == InstanceCodes \X LongNodeIds \X QrTypes

InitKeys ==
    /\ CacheIdle /\ BusIdle /\ QrIdle
    /\ arg = [fn |-> "keys", marks |-> EmptyMap, asked |-> <<>>] /\ ret = NotCalled
NextKeys ==
    \/ (Tick /\ arg' = [arg EXCEPT !.asked = <<>>]
              /\ UNCHANGED <<ret, busVars, qrVars>>)
    \/ (ClearCache /\ arg' = [arg EXCEPT !.marks = EmptyMap, !.asked = <<>>]
                    /\ UNCHANGED <<ret, busVars, qrVars>>)
    \/ \E t \in QrTuples :
          \/ /\ MarkQrAsGenerated(t[1], t[2], t[3])
             /\ arg' = [arg EXCEPT !.marks = Put(@, t, now), !.asked = <<>>]
             /\ UNCHANGED <<ret, busVars, qrVars>>
          \/ /\ IsQrRecentlyGenerated(t[1], t[2], t[3], QR_CACHE_DURATION_MINUTES)
             /\ arg' = [arg EXCEPT !.asked = t]
             /\ UNCHANGED <<ret, busVars, qrVars>>
SpecKeys == InitKeys /\ [][NextKeys]_vars

(***************************************************************************)
(* The cache with a history of its marks: arg.first remembers, for each    *)
(* key, the time of the mark that made the key present (the first mark of  *)
(* its present stay in the dict).                                          *)
(***************************************************************************)
FirstMarked(space, cache_key) ==
    IF <<space, cache_key>> \in DOMAIN arg.first THEN arg.first[<<space, cache_key>>]
    ELSE NeverMarked

\* the history after a mark of cache_key in dict d
RememberFirst(space, d, cache_key) ==
    arg' = [arg EXCEPT !.first = IF cache_key \in DOMAIN d THEN @
                                 ELSE Put(@, <<space, cache_key>>, now)]

InitRemark ==
    /\ CacheIdle /\ BusIdle /\ QrIdle
    /\ arg = [fn |-> "mark", first |-> EmptyMap] /\ ret = NotCalled
NextRemark ==
    \/ (Tick /\ UNCHANGED <<fnVars, busVars, qrVars>>)
    \/ (ClearCache /\ arg' = [arg EXCEPT !.first = EmptyMap]
                    /\ UNCHANGED <<ret, busVars, qrVars>>)
    \/ \E ic \in InstanceCodes, q \in QrTypes :
          \/ /\ MarkQrAsGenerated(ic, NodeIdOf(1), q)
             /\ RememberFirst("qr", qr_generation_cache,
                               GenerateCacheKey(ic, NodeIdOf(1), q))
             /\ UNCHANGED <<ret, busVars, qrVars>>
          \/ /\ IsQrRecentlyGenerated(ic, NodeIdOf(1), q, QR_CACHE_DURATION_MINUTES)
             /\ UNCHANGED <<fnVars, busVars, qrVars>>
    \/ \E ic \in InstanceCodes, v \in ValidationTypes :
          \/ /\ MarkValidationAlertAsSent(ic, v)
             /\ RememberFirst("validation", validation_alert_cache,
                               GenerateValidationCacheKey(ic, v))
             /\ UNCHANGED <<ret, busVars, qrVars>>
          \/ /\ IsValidationAlertRecentlySent(ic, v, ValidationCacheMinutes)
             /\ UNCHANGED <<fnVars, busVars, qrVars>>
SpecRemark == InitRemark /\ [][NextRemark]_vars

(***************************************************************************)
(* EventBus.  A handler is a callable: `name` is its __name__, `id` tells  *)
(* apart handlers of the same name (both domain handlers are bound methods *)
(* called handle_approval_event) and shows in what the handler returns or  *)
(* raises, `raises` says whether a call of it ends in an exception.        *)
(* One publish call is followed at a time; the payload passes through the  *)
(* bus untouched and is left out, and so is the measured duration.         *)
(***************************************************************************)
MaxSubscriptions == 2   \* most subscribe calls
MaxPublishes     == 2   \* most publish calls

EventTypes == {"approval.instance.updated", "approval.instance.other"}
HandlerPool ==
    {[name |-> "handle_approval_event", id |-> "qr",         raises |-> FALSE],
     [name |-> "handle_approval_event", id |-> "validation", raises |-> FALSE],
     [name |-> "faulty_handler",        id |-> "faulty",     raises |-> TRUE]}

\* self.handlers.get(event_type, [])
Subscribed(event_type) ==
    IF event_type \in DOMAIN handlers THEN handlers[event_type] ELSE <<>>

RECURSIVE CountSubscriptions(_)
CountSubscriptions(types) ==
    IF types = {} THEN 0
    ELSE LET t == CHOOSE x \in types : TRUE
         IN  Len(Subscribed(t)) + CountSubscriptions(types \ {t})

\* the record with the bug of counting the handlers of every event type
EventRecordCountingAll(event_type) ==
    [timestamp      |-> now,
     event_type     |-> event_type,
     handlers_count |-> CountSubscriptions(EventTypes)]

\* the event_record of publish
EventRecord(event_type) ==
    [timestamp      |-> now,
     event_type     |-> event_type,
     handlers_count |-> Len(Subscribed(event_type))]

\* the wrapper with the bug of letting the handler's exception escape: the
\* task ends with the exception, which gather hands back as a result
RunHandlerUnguarded(handler) ==
    IF handler.raises
    THEN [exception |-> handler.id]
    ELSE [handler |-> handler.name, success |-> TRUE,
          result  |-> [service |-> handler.id]]

\* _run_handler_safe: the outcome dict of one handler call
RunHandlerSafe(handler) ==
    IF handler.raises
    THEN [handler |-> handler.name, success |-> FALSE, error |-> handler.id]
    ELSE [handler |-> handler.name, success |-> TRUE,
          result  |-> [service |-> handler.id]]

\* the results in the order in which the tasks finished
GatherAsCompleted(tasks, finished) ==
    [i \in 1..Len(tasks) |-> tasks[finished[i]].outcome]

\* asyncio.gather(*tasks, return_exceptions=True): the results in the order
\* of the tasks
Gather(tasks, finished) ==
    [i \in 1..Len(tasks) |-> tasks[i].outcome]

\* subscribe with the bug of replacing the handler list of the event type
SubscribeReplacing(event_type, handler) ==
    /\ CountSubscriptions(EventTypes) < MaxSubscriptions
    /\ handlers' = Put(handlers, event_type, <<handler>>)
    /\ UNCHANGED <<event_history, pub>>

\* subscribe: one more entry at the end of the event type's list
Subscribe(event_type, handler) ==
    /\ CountSubscriptions(EventTypes) < MaxSubscriptions
    /\ handlers' = Put(handlers, event_type,
                       Append(Subscribed(event_type), handler))
    /\ UNCHANGED <<event_history, pub>>

\* publish up to its await: the history record, one task per handler; with
\* no handler list for the event type it returns [] at once
Publish(event_type) ==
    /\ pub.phase \in {"idle", "returned"}
    /\ event_history' = Append(event_history, EventRecord(event_type))
    /\ pub' = [phase          |-> IF event_type \in DOMAIN handlers
                                  THEN "gathering" ELSE "returned",
               event_type     |-> event_type,
               tasks          |-> [i \in 1..Len(Subscribed(event_type)) |->
                                     [handler |-> handlers[event_type][i],
                                      state   |-> "created",
                                      outcome |-> None]],
               finished       |-> <<>>,
               results        |-> <<>>,
               history_before |-> Len(event_history)]
    /\ UNCHANGED handlers

\* the start with the bug of running the first task only
StartTaskFirstOnly(i) ==
    /\ pub.phase = "gathering"
    /\ i = 1 /\ i \in 1..Len(pub.tasks)
    /\ pub.tasks[i].state = "created"
    /\ pub' = [pub EXCEPT !.tasks[i].state = "running"]
    /\ UNCHANGED <<handlers, event_history>>

\* the event loop starts a task: the wrapper calls the handler
StartTask(i) ==
    /\ pub.phase = "gathering"
    /\ i \in 1..Len(pub.tasks)
    /\ pub.tasks[i].state = "created"
    /\ pub' = [pub EXCEPT !.tasks[i].state = "running"]
    /\ UNCHANGED <<handlers, event_history>>

\* the handler returns or raises and the wrapper ends
FinishTask(i) ==
    /\ pub.phase = "gathering"
    /\ i \in 1..Len(pub.tasks)
    /\ pub.tasks[i].state = "running"
    /\ pub' = [pub EXCEPT !.tasks[i].state = "done",
                          !.tasks[i].outcome = RunHandlerSafe(pub.tasks[i].handler),
                          !.finished = Append(pub.finished, i)]
    /\ UNCHANGED <<handlers, event_history>>

\* gather completes once every task is done and publish returns its results
PublishReturn ==
    /\ pub.phase = "gathering"
    /\ \A i \in 1..Len(pub.tasks) : pub.tasks[i].state = "done"
    /\ pub' = [pub EXCEPT !.phase = "returned",
                          !.results = Gather(pub.tasks, pub.finished)]
    /\ UNCHANGED <<handlers, event_history>>

InitBus == BusIdle /\ FnIdle /\ CacheIdle /\ QrIdle
NextBus ==
    \/ \E t \in EventTypes, h \in HandlerPool :
          Subscribe(t, h) /\ UNCHANGED <<fnVars, cacheVars, qrVars>>
    \/ \E t \in EventTypes :
          /\ Len(event_history) < MaxPublishes
          /\ Publish(t)
          /\ UNCHANGED <<fnVars, cacheVars, qrVars>>
    \/ \E i \in 1..MaxSubscriptions :
          /\ (StartTask(i) \/ FinishTask(i))
          /\ UNCHANGED <<fnVars, cacheVars, qrVars>>
    \/ (PublishReturn /\ UNCHANGED <<fnVars, cacheVars, qrVars>>)
SpecBus == InitBus /\ [][NextBus]_vars

(***************************************************************************)
(* The event history over a long run: publishes of an event type nobody    *)
(* subscribed to, and get_event_history read with several limits.          *)
(***************************************************************************)
HISTORY_LIMIT == 50     \* def get_event_history(self, limit: int = 50)

\* self.event_history[-limit:]
LastRecords(history, limit) ==
    SubSeq(history, IF Len(history) > limit THEN Len(history) - limit + 1 ELSE 1,
           Len(history))

GetEventHistory(limit) ==
    /\ arg' = [fn |-> "get_event_history", limit |-> limit]
    /\ ret' = Returned(LastRecords(event_history, limit))
    /\ UNCHANGED busVars

InitHistory == BusIdle /\ FnIdle /\ CacheIdle /\ QrIdle
NextHistory ==
    \/ /\ Len(event_history) <= HISTORY_LIMIT
       /\ Publish("approval.instance.updated")
       /\ UNCHANGED <<fnVars, cacheVars, qrVars>>
    \/ \E limit \in {1, 2, HISTORY_LIMIT} :
          GetEventHistory(limit) /\ UNCHANGED <<cacheVars, qrVars>>
SpecHistory == InitHistory /\ [][NextHistory]_vars

(***************************************************************************)
(* QREventHandler.handle_approval_event and                                *)
(* QRProcessor.process_approval_with_qr_comment.                           *)
(*                                                                         *)
(* The collaborators of lark_service are coroutines that call the blocking *)
(* `requests` library and never suspend, so an invocation runs to its end  *)
(* before another one starts: `cur` is the one invocation in progress and  *)
(* `done` lists the finished ones.  Time may pass while a collaborator is  *)
(* being called.  An invocation enters through the event handler, or       *)
(* through a call of the processor with its three arguments.  `world` is   *)
(* what the approval-data source holds for the instance (None: the fetch   *)
(* fails); whether another collaborator succeeds is decided when it is     *)
(* called, and `failed_call` remembers the one that failed.                *)
(***************************************************************************)
MaxInvocations == 2     \* most invocations
MaxQrTime      == 6     \* the clock of this specification stops here

\* bool(v) of the values met here
Truthy(v) == ~(v = None \/ v = Missing \/ v = Str("") \/ v = Num(0))

\* the statuses with the bug of CANCELED missing from the list
FinalStatusesWithoutCanceled == {Str("REJECTED"), Str("DELETED")}

FINAL_STATUSES == {Str("REJECTED"), Str("CANCELED"), Str("DELETED")}

\* def process_approval_with_qr_comment(self, instance_code, approval_code,
\* access_token)
ProcessorParameters  == <<"instance_code", "approval_code", "access_token">>
\* qr_processor.process_approval_with_qr_comment(instance_code, access_token)
HandlerCallArguments == <<"instance_code", "access_token">>
\* positional arguments bind to parameters without defaults; otherwise the
\* call raises TypeError
Binds(arguments, parameters) == Len(arguments) = Len(parameters)

\* the static workflow configuration: W1 is complete, W2 lacks the mapping
\* of the account number, any other approval code is not configured
BANK_NAME        == Name("Ngan hang")
ACCOUNT_NUMBER   == Name("So tai khoan ngan hang")
BENEFICIARY_NAME == Name("Ten nguoi thu huong")
APPROVAL_WORKFLOWS ==
    [code \in {"W1", "W2"} |->
        [name             |-> code,
         qr_trigger_nodes |-> <<AdvanceConfig>>,
         field_mappings   |->
            [bank_name        |-> BANK_NAME,
             account_number   |-> IF code = "W1" THEN ACCOUNT_NUMBER ELSE None,
             beneficiary_name |-> BENEFICIARY_NAME]]]
ApprovalCodes == {"W1", "W2", "W0"}

GetWorkflowConfig(approval_code) ==
    IF approval_code \in DOMAIN APPROVAL_WORKFLOWS
    THEN APPROVAL_WORKFLOWS[approval_code] ELSE None

\* int(float(amount_value)) of an amount in hundredths: truncation toward 0
IntOf(n) == IF n >= 0 THEN n \div 100 ELSE -((-n) \div 100)

\* validate_amount_value with the bug of testing only that the amount parses
ValidateAmountValueAnyNumber(amount_value) ==
    IF amount_value = None \/ amount_value = Missing
    THEN [valid |-> FALSE, amount |-> None]
    ELSE IF ~Parses(amount_value) THEN [valid |-> FALSE, amount |-> None]
    ELSE [valid |-> TRUE, amount |-> Num(IntOf(amount_value.n))]

ValidateAmountValue(amount_value) ==
    IF amount_value = None \/ amount_value = Missing
    THEN [valid |-> FALSE, amount |-> None]
    ELSE IF ~Parses(amount_value) THEN [valid |-> FALSE, amount |-> None]
    ELSE IF IntOf(amount_value.n) <= 0
         THEN [valid |-> FALSE, amount |-> Num(IntOf(amount_value.n))]
         ELSE [valid |-> TRUE, amount |-> Num(IntOf(amount_value.n))]

\* what the approval-data source returns for an instance: one cashier task,
\* the fields of round 1 and the bank fields
BankFields(complete) ==
    <<Field(BANK_NAME, "input", Str("MB")),
      Field(ACCOUNT_NUMBER, "input", Str("123"))>>
    \o (IF complete THEN <<Field(BENEFICIARY_NAME, "input", Str("NGUYEN VAN A"))>>
        ELSE <<>>)
Instance(k, answer, amount, complete) ==
    [task_list |-> <<[node_id |-> NodeIdOf(k), node_name |-> CashierA,
                      status |-> "PENDING"]>>,
     form      |-> <<Field(Format(AdvanceConfig.yes_no_field_template, 1),
                           "radioV2", Str(answer)),
                     Field(Format(AdvanceConfig.amount_field_template, 1),
                           "amount", amount)>>
                   \o BankFields(complete)]
ActiveInstance == Instance(1, "Yes", Num(50000000), TRUE)
\* the instance w with a form that carries no amount field
WithoutAmount(w) ==
    [w EXCEPT !.form = SelectSeq(@, LAMBDA f :
                  f.name # Format(AdvanceConfig.amount_field_template, 1))]
Worlds ==
    {None,
     ActiveInstance,
     Instance(2, "Yes", Num(50000000), TRUE),
     Instance(1, "No",  Num(50000000), TRUE),
     Instance(1, "Yes", Num(0), TRUE),
     Instance(1, "Yes", Num(50000000), FALSE)}
\* instances of every kind of amount: a positive integer, a positive amount
\* with a fraction, a fraction below 1, zero, a negative amount, a text that
\* is no number, and no amount field at all
AmountWorlds ==
    {ActiveInstance,
     Instance(1, "Yes", Num(150), TRUE),
     Instance(1, "Yes", Num(50), TRUE),
     Instance(1, "Yes", Num(0), TRUE),
     Instance(1, "Yes", Num(-100), TRUE),
     Instance(1, "Yes", Str("abc"), TRUE),
     WithoutAmount(ActiveInstance)}
EventStatuses ==
    {None, Str("APPROVED"), Str("REJECTED"), Str("CANCELED"), Str("DELETED")}
NoInstanceCode == <<>>      \* event_data without an instance_code
NoApprovalCode == ""        \* event_data without an approval_code

\* the events handed to the handler: events of workflow W1 about the active
\* instance in every status, an event of a workflow without configuration,
\* an event that names no instance and an event that names no workflow
HandlerInputs ==
    { [instance_code |-> ic, approval_code |-> "W1", status |-> st,
       world |-> ActiveInstance] : ic \in InstanceCodes, st \in EventStatuses }
    \cup { [instance_code |-> ic, approval_code |-> "W0", status |-> None,
            world |-> ActiveInstance] : ic \in InstanceCodes }
    \cup {[instance_code |-> NoInstanceCode, approval_code |-> "W1",
           status |-> None, world |-> None]}
    \cup { [instance_code |-> ic, approval_code |-> NoApprovalCode,
            status |-> None, world |-> ActiveInstance] : ic \in InstanceCodes }
\* the calls of the processor: workflow W1 on every instance, the other
\* workflows on the active instance
ProcessorInputs ==
    { [instance_code |-> ic, approval_code |-> "W1", world |-> w]
        : ic \in InstanceCodes, w \in Worlds }
    \cup { [instance_code |-> ic, approval_code |-> ac, world |-> ActiveInstance]
             : ic \in InstanceCodes, ac \in ApprovalCodes }

Begin(entry, instance_code, approval_code, status, world) ==
    [pc             |-> "start",
     entry          |-> entry,
     instance_code  |-> instance_code,
     approval_code  |-> approval_code,
     status         |-> status,
     world          |-> world,
     success        |-> FALSE,
     outcome        |-> "",
     failed_call    |-> "none",
     calls          |-> <<>>,
     trigger        |-> NoTrigger,
     resolver_calls |-> 0,
     seen           |-> "not_looked_up",
     uploads        |-> 0,
     comments       |-> 0,
     marks          |-> 0]

\* history: the invocation c has called the collaborator `name`
Called(c, name) == [c EXCEPT !.calls = Append(@, name)]

\* the invocation c returns
Finish(c, success, outcome) ==
    /\ done' = Append(done, [c EXCEPT !.pc = "done", !.success = success,
                                      !.outcome = outcome])
    /\ cur' = NoInvocation

\* the processor up to its first await: the configuration lookup
EnterProcessor(c) ==
    IF GetWorkflowConfig(c.approval_code) = None
    THEN Finish(c, TRUE, "no_workflow_config")
    ELSE cur' = [c EXCEPT !.pc = "fetch"] /\ UNCHANGED done

\* handle_approval_event up to its first await
HandleApprovalEvent(instance_code, approval_code, status, world) ==
    /\ cur = NoInvocation
    /\ Len(done) < MaxInvocations
    /\ LET c == Begin("handler", instance_code, approval_code, status, world)
       IN  IF instance_code = NoInstanceCode
           THEN Finish(c, FALSE, "missing_instance_code")
           ELSE IF Truthy(status) /\ status \in FINAL_STATUSES
                THEN Finish(c, TRUE, "skipped_final_status")
                ELSE cur' = [c EXCEPT !.pc = "token"] /\ UNCHANGED done
    /\ UNCHANGED cacheVars

\* get_access_token returns and the handler calls the processor
GetAccessToken(ok) ==
    /\ cur.pc = "token"
    /\ LET c == Called(cur, "get_access_token")
       IN  IF ~ok
           THEN Finish([c EXCEPT !.failed_call = "get_access_token"],
                       FALSE, "no_access_token")
           ELSE IF ~Binds(HandlerCallArguments, ProcessorParameters)
                THEN Finish(c, FALSE, "TypeError")
                ELSE EnterProcessor(c)
    /\ UNCHANGED cacheVars

\* a call of the processor with its three arguments
ProcessApprovalWithQrComment(instance_code, approval_code, world) ==
    /\ cur = NoInvocation
    /\ Len(done) < MaxInvocations
    /\ EnterProcessor(Begin("processor", instance_code, approval_code, None, world))
    /\ UNCHANGED cacheVars

\* the processor with the bug of going on after the duplicate check found
\* the key seen
GetApprovalInstanceIgnoringSeen(render_ok) ==
    /\ cur.pc = "fetch"
    /\ IF cur.world = None
       THEN /\ Finish([Called(cur, "get_approval_instance")
                         EXCEPT !.failed_call = "get_approval_instance"],
                      FALSE, "no_instance")
            /\ UNCHANGED cacheVars
       ELSE LET workflow_config == GetWorkflowConfig(cur.approval_code)
                trigger == FindActiveQrTrigger(cur.world.task_list, cur.world.form,
                                               workflow_config.qr_trigger_nodes)
                r == [Called(Called(cur, "get_approval_instance"),
                             "_find_active_qr_trigger")
                        EXCEPT !.resolver_calls = @ + 1, !.trigger = trigger]
                c == [Called(r, "is_qr_recently_generated")
                        EXCEPT !.seen = IF lookup'.result THEN "seen" ELSE "not_seen"]
                m == workflow_config.field_mappings
            IN  IF ~trigger.found
                THEN Finish(r, TRUE, "no_trigger") /\ UNCHANGED cacheVars
                ELSE /\ IsQrRecentlyGenerated(r.instance_code, trigger.node_id,
                            trigger.qr_type, QR_CACHE_DURATION_MINUTES)
                     /\ IF ~ValidateAmountValue(trigger.amount).valid
                        THEN Finish(c, FALSE, "invalid_amount")
                        ELSE IF ~(/\ Truthy(m.bank_name)
                                  /\ Truthy(m.account_number)
                                  /\ Truthy(m.beneficiary_name))
                        THEN Finish(c, FALSE, "missing_field_mapping")
                        ELSE IF ~(/\ Truthy(ExtractFieldValue(c.world.form, m.bank_name))
                                  /\ Truthy(ExtractFieldValue(c.world.form, m.account_number))
                                  /\ Truthy(ExtractFieldValue(c.world.form, m.beneficiary_name)))
                        THEN Finish(c, FALSE, "missing_bank_info")
                        ELSE IF ~render_ok
                        THEN Finish([Called(c, "create_qr_in_memory")
                                       EXCEPT !.failed_call = "create_qr_in_memory"],
                                    FALSE, "no_qr_image")
                        ELSE /\ cur' = [Called(c, "create_qr_in_memory")
                                         EXCEPT !.pc = "upload"]
                             /\ UNCHANGED done

\* get_approval_instance returns; the processor runs up to the upload: the
\* trigger resolver, the duplicate check, the amount, the bank fields and
\* the rendering of the QR image
GetApprovalInstance(render_ok) ==
    /\ cur.pc = "fetch"
    /\ IF cur.world = None
       THEN /\ Finish([Called(cur, "get_approval_instance")
                         EXCEPT !.failed_call = "get_approval_instance"],
                      FALSE, "no_instance")
            /\ UNCHANGED cacheVars
       ELSE LET workflow_config == GetWorkflowConfig(cur.approval_code)
                trigger == FindActiveQrTrigger(cur.world.task_list, cur.world.form,
                                               workflow_config.qr_trigger_nodes)
                r == [Called(Called(cur, "get_approval_instance"),
                             "_find_active_qr_trigger")
                        EXCEPT !.resolver_calls = @ + 1, !.trigger = trigger]
                c == [Called(r, "is_qr_recently_generated")
                        EXCEPT !.seen = IF lookup'.result THEN "seen" ELSE "not_seen"]
                m == workflow_config.field_mappings
            IN  IF ~trigger.found
                THEN Finish(r, TRUE, "no_trigger") /\ UNCHANGED cacheVars
                ELSE /\ IsQrRecentlyGenerated(r.instance_code, trigger.node_id,
                            trigger.qr_type, QR_CACHE_DURATION_MINUTES)
                     /\ IF lookup'.result
                        THEN Finish(c, TRUE, "duplicate")
                        ELSE IF ~ValidateAmountValue(trigger.amount).valid
                        THEN Finish(c, FALSE, "invalid_amount")
                        ELSE IF ~(/\ Truthy(m.bank_name)
                                  /\ Truthy(m.account_number)
                                  /\ Truthy(m.beneficiary_name))
                        THEN Finish(c, FALSE, "missing_field_mapping")
                        ELSE IF ~(/\ Truthy(ExtractFieldValue(c.world.form, m.bank_name))
                                  /\ Truthy(ExtractFieldValue(c.world.form, m.account_number))
                                  /\ Truthy(ExtractFieldValue(c.world.form, m.beneficiary_name)))
                        THEN Finish(c, FALSE, "missing_bank_info")
                        ELSE IF ~render_ok
                        THEN Finish([Called(c, "create_qr_in_memory")
                                       EXCEPT !.failed_call = "create_qr_in_memory"],
                                    FALSE, "no_qr_image")
                        ELSE /\ cur' = [Called(c, "create_qr_in_memory")
                                         EXCEPT !.pc = "upload"]
                             /\ UNCHANGED done

\* the upload step with the bug of marking the key whatever the upload says
UploadImageMarkingAlways(ok) ==
    /\ cur.pc = "upload"
    /\ MarkQrAsGenerated(cur.instance_code, cur.trigger.node_id, cur.trigger.qr_type)
    /\ LET c == [Called(Called(cur, "upload_image_to_approval"),
                        "mark_qr_as_generated") EXCEPT !.marks = @ + 1]
       IN  IF ~ok
           THEN Finish([c EXCEPT !.failed_call = "upload_image_to_approval"],
                       FALSE, "upload_failed")
           ELSE cur' = [c EXCEPT !.pc = "comment", !.uploads = @ + 1]
                /\ UNCHANGED done

\* the upload step with the bug of asking once more after a failed upload
UploadImageRetrying(ok) ==
    /\ cur.pc = "upload"
    /\ IF ~ok /\ \A n \in 1..Len(cur.calls) :
                    cur.calls[n] # "upload_image_to_approval"
       THEN /\ cur' = Called(cur, "upload_image_to_approval")
            /\ UNCHANGED <<done, cacheVars>>
       ELSE IF ~ok
       THEN /\ Finish([Called(cur, "upload_image_to_approval")
                         EXCEPT !.failed_call = "upload_image_to_approval"],
                      FALSE, "upload_failed")
            /\ UNCHANGED cacheVars
       ELSE /\ MarkQrAsGenerated(cur.instance_code, cur.trigger.node_id,
                                 cur.trigger.qr_type)
            /\ cur' = [Called(Called(cur, "upload_image_to_approval"),
                              "mark_qr_as_generated")
                         EXCEPT !.pc = "comment", !.uploads = @ + 1,
                                !.marks = @ + 1]
            /\ UNCHANGED done

\* upload_image_to_approval returns; after a successful upload the key is
\* marked before the comment is requested
UploadImageToApproval(ok) ==
    /\ cur.pc = "upload"
    /\ IF ~ok
       THEN /\ Finish([Called(cur, "upload_image_to_approval")
                         EXCEPT !.failed_call = "upload_image_to_approval"],
                      FALSE, "upload_failed")
            /\ UNCHANGED cacheVars
       ELSE /\ MarkQrAsGenerated(cur.instance_code, cur.trigger.node_id,
                                 cur.trigger.qr_type)
            /\ cur' = [Called(Called(cur, "upload_image_to_approval"),
                              "mark_qr_as_generated")
                         EXCEPT !.pc = "comment", !.uploads = @ + 1,
                                !.marks = @ + 1]
            /\ UNCHANGED done

\* the comment step with the bug of taking the key back when the post fails
CreateCommentRollingBack(ok) ==
    /\ cur.pc = "comment"
    /\ LET c == Called(cur, "create_enhanced_comment_with_image")
       IN  IF ok
           THEN /\ Finish([c EXCEPT !.comments = @ + 1], TRUE, "completed")
                /\ UNCHANGED cacheVars
           ELSE /\ Finish([c EXCEPT !.failed_call = "create_enhanced_comment_with_image"],
                          FALSE, "comment_failed")
                /\ qr_generation_cache' =
                       Delete(qr_generation_cache,
                              GenerateCacheKey(c.instance_code, c.trigger.node_id,
                                               c.trigger.qr_type))
                /\ UNCHANGED <<now, validation_alert_cache, marked, lookup>>

\* create_enhanced_comment_with_image returns
CreateEnhancedCommentWithImage(ok) ==
    /\ cur.pc = "comment"
    /\ LET c == Called(cur, "create_enhanced_comment_with_image")
       IN  IF ok
           THEN Finish([c EXCEPT !.comments = @ + 1], TRUE, "completed")
           ELSE Finish([c EXCEPT !.failed_call = "create_enhanced_comment_with_image"],
                       FALSE, "comment_failed")
    /\ UNCHANGED cacheVars

\* a minute passes
Wait ==
    /\ now < MaxQrTime
    /\ Tick
    /\ UNCHANGED qrVars

Init == QrIdle /\ CacheIdle /\ FnIdle /\ BusIdle
Next ==
    \/ \E e \in HandlerInputs :
          /\ HandleApprovalEvent(e.instance_code, e.approval_code, e.status, e.world)
          /\ UNCHANGED <<fnVars, busVars>>
    \/ \E ok \in BOOLEAN :
          GetAccessToken(ok) /\ UNCHANGED <<fnVars, busVars>>
    \/ \E p \in ProcessorInputs :
          /\ ProcessApprovalWithQrComment(p.instance_code, p.approval_code, p.world)
          /\ UNCHANGED <<fnVars, busVars>>
    \/ \E ok \in BOOLEAN :
          GetApprovalInstance(ok) /\ UNCHANGED <<fnVars, busVars>>
    \/ \E ok \in BOOLEAN :
          UploadImageToApproval(ok) /\ UNCHANGED <<fnVars, busVars>>
    \/ \E ok \in BOOLEAN :
          CreateEnhancedCommentWithImage(ok) /\ UNCHANGED <<fnVars, busVars>>
    \/ (Wait /\ UNCHANGED <<fnVars, busVars>>)
Spec == Init /\ [][Next]_vars

\* the handler and the processor on instances of every kind of amount
InitAmount == Init
NextAmount ==
    \/ \E ic \in InstanceCodes, w \in AmountWorlds :
          /\ HandleApprovalEvent(ic, "W1", None, w)
          /\ UNCHANGED <<fnVars, busVars>>
    \/ \E ok \in BOOLEAN :
          GetAccessToken(ok) /\ UNCHANGED <<fnVars, busVars>>
    \/ \E ic \in InstanceCodes, w \in AmountWorlds :
          /\ ProcessApprovalWithQrComment(ic, "W1", w)
          /\ UNCHANGED <<fnVars, busVars>>
    \/ \E ok \in BOOLEAN :
          GetApprovalInstance(ok) /\ UNCHANGED <<fnVars, busVars>>
    \/ \E ok \in BOOLEAN :
          UploadImageToApproval(ok) /\ UNCHANGED <<fnVars, busVars>>
    \/ \E ok \in BOOLEAN :
          CreateEnhancedCommentWithImage(ok) /\ UNCHANGED <<fnVars, busVars>>
    \/ (Wait /\ UNCHANGED <<fnVars, busVars>>)
SpecAmount == InitAmount /\ [][NextAmount]_vars

(***************************************************************************)
(* ValidationEventHandler.handle_approval_event.                           *)
(*                                                                         *)
(* The handler fetches the instance, runs every registered rule, keeps the *)
(* results that are not valid, drops those whose key the validation cache  *)
(* has seen within 10 minutes, posts the remaining ones as one alert and   *)
(* marks their keys when the post succeeded.  As for the QR handler, `cur` *)
(* is the invocation in progress and `done` lists the finished ones; time  *)
(* may pass while a collaborator is being called.                          *)
(***************************************************************************)
\* ValidationType.<member>.value
ValueOf(validation_type) ==
    CASE validation_type = "ADVANCE_AMOUNT_MISMATCH" -> "advance_amount_mismatch"
      [] validation_type = "PAYMENT_AMOUNT_MISMATCH" -> "payment_amount_mismatch"
      [] validation_type = "WORKFLOW_STATUS"         -> "workflow_status_validation"
      [] validation_type = "FIELD_CONSISTENCY"       -> "field_consistency_validation"

\* ValidationResult.is_valid, as the four constructors set it
IsValid(result) == result.status \in {"VALID", "SKIPPED"}

DummyNodeId == <<"dummy_node_id">>
ProblematicStatuses == {"REJECTED", "CANCELED", "WITHDRAWN"}

ValidateWorkflowStatus(task_list, node_id) ==
    LET hits == {n \in 1..Len(task_list) : task_list[n].node_id = node_id}
    IN  IF hits = {}
        THEN Result("WORKFLOW_STATUS", "SKIPPED", [text |-> "no such node"])
        ELSE LET target_node ==
                     task_list[CHOOSE n \in hits : \A k \in hits : n <= k]
             IN  IF target_node.status \in ProblematicStatuses
                 THEN Result("WORKFLOW_STATUS", "INVALID",
                             [text |-> "problematic", status |-> target_node.status])
                 ELSE Result("WORKFLOW_STATUS", "VALID",
                             [text |-> "normal", status |-> target_node.status])

ValidateFieldConsistency ==
    Result("FIELD_CONSISTENCY", "VALID", [text |-> "placeholder"])

\* the rules in the order of the validation_rules dict; a rule that returns
\* a list extends the results, a rule that returns one result appends it
RunAllValidations(form_data, task_list, node_id) ==
    ValidateAdvanceAmountMismatch(form_data)
    \o <<ValidatePaymentAmountMismatch(form_data)>>
    \o <<ValidateWorkflowStatus(task_list, node_id)>>
    \o <<ValidateFieldConsistency>>

\* the filter with the bug of keeping every result
InvalidResultsKeepingAll(validation_results) == validation_results

\* [r for r in validation_results if not r.is_valid]
InvalidResults(validation_results) ==
    SelectSeq(validation_results, LAMBDA r : ~IsValid(r))

\* hash(message): the same string has the same hash for as long as the
\* process lives, and different messages are taken to have different hashes
Hash(message) == [hash_of |-> message]

\* f"{result.validation_type.value}_{hash(result.message)}"
SpecificErrorKey(result) ==
    <<ValueOf(result.validation_type), "_", Hash(result.message)>>

\* the loop with the bug of sending every invalid result again
FilterAlertsKeepingAll(d, instance_code, invalid_results, current_time) ==
    [cache |-> d, alerts_to_send |-> invalid_results, skipped_count |-> 0]

\* the loop over invalid_results on cache dict d: the cache after the
\* lookups, the results to send and the number of results skipped
RECURSIVE FilterAlerts(_, _, _, _)
FilterAlerts(d, instance_code, invalid_results, current_time) ==
    IF invalid_results = <<>>
    THEN [cache |-> d, alerts_to_send |-> <<>>, skipped_count |-> 0]
    ELSE LET result == Head(invalid_results)
             cache_key == GenerateValidationCacheKey(instance_code,
                                                     SpecificErrorKey(result))
             seen == RecentlySeen(d, cache_key, current_time, ValidationCacheMinutes)
             rest == FilterAlerts(AfterLookup(d, cache_key, current_time,
                                              ValidationCacheMinutes),
                                  instance_code, Tail(invalid_results), current_time)
         IN  [cache          |-> rest.cache,
              alerts_to_send |-> IF seen THEN rest.alerts_to_send
                                 ELSE <<result>> \o rest.alerts_to_send,
              skipped_count  |-> rest.skipped_count + (IF seen THEN 1 ELSE 0)]

\* the loop of mark_validation_alert_as_sent over alerts_to_send, on a dict
\* from keys to times; `space` is put in front of the key of the history
RECURSIVE MarkAll(_, _, _, _, _)
MarkAll(d, space, instance_code, results, current_time) ==
    IF results = <<>> THEN d
    ELSE LET cache_key == GenerateValidationCacheKey(instance_code,
                                                     SpecificErrorKey(Head(results)))
         IN  MarkAll(AfterMark(d, IF space = <<>> THEN cache_key
                                  ELSE <<space[1], cache_key>>, current_time),
                     space, instance_code, Tail(results), current_time)

\* the bug of marking the keys whatever the post reports
MarksAlways(webhook_sent) == TRUE
\* if webhook_sent: the keys are marked
MarksAfterSend(webhook_sent) == webhook_sent

\* what the approval-data source returns: the declared advance of round 1,
\* one row of the accounting-advance group and, with `payment`, a payment
\* group and the remaining amount
ValidationInstance(accountant, payment) ==
    [task_list |-> <<[node_id |-> NodeIdOf(1), node_name |-> CashierA,
                      status |-> "PENDING"]>>,
     form      |-> <<Field(Format(UserAdvanceTemplate, 1), "amount", Num(10000)),
                     Field(ACCOUNTING_ADVANCE_INFO, "fieldList",
                           Rows(<<AccountingRow(accountant)>>))>>
                   \o (IF payment = Missing THEN <<>>
                       ELSE <<Field(ACCOUNTING_PAYMENT_INFO, "fieldList",
                                    Rows(<<AccountingRow(Num(10000))>>)),
                              Field(REMAINING_PAYMENT_AMOUNT, "amount", payment)>>)]
ValidationWorlds ==
    {None,
     ValidationInstance(Num(10000), Missing),       \* nothing to report
     ValidationInstance(Num(10002), Missing),       \* the advance differs
     ValidationInstance(Num(10002), Num(10002)),    \* both differ
     ValidationInstance(Num(10000), Str("abc"))}    \* the remaining amount is no number

\* the events handed to the handler: an event without a status about every
\* instance, events with raw_data.event.object.status or raw_data.event.status
\* about one instance, an event that names no instance and an event that
\* names no workflow
ValidationInputs ==
    { [instance_code |-> ic, approval_code |-> "W1", object_status |-> None,
       event_status |-> None, world |-> w]
        : ic \in InstanceCodes, w \in ValidationWorlds }
    \cup { [instance_code |-> ic, approval_code |-> "W1", object_status |-> st[1],
            event_status |-> st[2], world |-> ValidationInstance(Num(10002), Missing)]
             : ic \in InstanceCodes,
               st \in {<<Str("CANCELED"), None>>, <<None, Str("REJECTED")>>,
                       <<Str("CANCELED"), Str("REJECTED")>>} }
    \cup { [instance_code |-> ic, approval_code |-> ac, object_status |-> None,
            event_status |-> None, world |-> ValidationInstance(Num(10002), Missing)]
             : ic \in {NoInstanceCode}, ac \in {"W1"} }
    \cup { [instance_code |-> ic, approval_code |-> NoApprovalCode,
            object_status |-> None, event_status |-> None,
            world |-> ValidationInstance(Num(10002), Missing)]
             : ic \in InstanceCodes }

BeginValidation(instance_code, approval_code, status, world) ==
    [pc             |-> "start",
     entry          |-> "validation",
     instance_code  |-> instance_code,
     approval_code  |-> approval_code,
     status         |-> status,
     world          |-> world,
     success        |-> FALSE,
     outcome        |-> "",
     failed_call    |-> "none",
     calls          |-> <<>>,
     marks          |-> 0,
     validation_results |-> <<>>,
     alerts_to_send |-> <<>>,
     skipped_count  |-> 0,
     alerts         |-> <<>>,
     webhook_sent   |-> FALSE]

\* handle_approval_event up to its first await
ValidationHandleApprovalEvent(instance_code, approval_code, object_status, event_status, world) ==
    /\ cur = NoInvocation
    /\ Len(done) < MaxInvocations
    /\ LET instance_status ==
               IF Truthy(object_status) THEN object_status ELSE event_status
           c == BeginValidation(instance_code, approval_code, instance_status, world)
       IN  IF instance_code = NoInstanceCode
           THEN Finish(c, FALSE, "missing_instance_code")
           ELSE IF Truthy(instance_status) /\ instance_status \in FINAL_STATUSES
                THEN Finish(c, TRUE, "skipped_final_status")
                ELSE cur' = [c EXCEPT !.pc = "validation_token"] /\ UNCHANGED done
    /\ UNCHANGED cacheVars

\* get_access_token returns
ValidationGetAccessToken(ok) ==
    /\ cur.pc = "validation_token"
    /\ LET c == Called(cur, "get_access_token")
       IN  IF ~ok
           THEN Finish([c EXCEPT !.failed_call = "get_access_token"],
                       FALSE, "no_access_token")
           ELSE cur' = [c EXCEPT !.pc = "validation_fetch"] /\ UNCHANGED done
    /\ UNCHANGED cacheVars

\* the instance w as the approval-data source returns it when its status
\* is st, and the status of a returned instance
WithStatus(w, st) == [task_list |-> w.task_list, form |-> w.form, status |-> st]
SnapshotStatus(w) ==
    IF w # None /\ "status" \in DOMAIN w THEN w.status ELSE None

\* the handler with the bug of skipping on the status of the fetched instance
ValidationGetApprovalInstanceCheckingSnapshot ==
    /\ cur.pc = "validation_fetch"
    /\ LET c0 == Called(cur, "get_approval_instance")
       IN  IF c0.world = None
           THEN /\ Finish([c0 EXCEPT !.failed_call = "get_approval_instance"],
                          FALSE, "no_instance")
                /\ UNCHANGED cacheVars
           ELSE IF SnapshotStatus(c0.world) \in FINAL_STATUSES
           THEN Finish(c0, TRUE, "skipped_final_status") /\ UNCHANGED cacheVars
           ELSE LET validation_results ==
                        RunAllValidations(c0.world.form, c0.world.task_list, DummyNodeId)
                    invalid_results == InvalidResults(validation_results)
                    c == [c0 EXCEPT !.validation_results = validation_results]
                    f == FilterAlerts(validation_alert_cache, c.instance_code,
                                      invalid_results, now)
                    c2 == [c EXCEPT !.alerts_to_send = f.alerts_to_send,
                                    !.skipped_count = f.skipped_count]
                IN  IF invalid_results = <<>>
                    THEN Finish(c, TRUE, "all_valid") /\ UNCHANGED cacheVars
                    ELSE /\ validation_alert_cache' = f.cache
                         /\ lookup' = NoLookup
                         /\ UNCHANGED <<now, qr_generation_cache, marked>>
                         /\ IF f.alerts_to_send = <<>>
                            THEN Finish(c2, TRUE, "all_cached")
                            ELSE cur' = [c2 EXCEPT !.pc = "validation_alert"]
                                 /\ UNCHANGED done

\* get_approval_instance returns; the handler runs the rules and looks the
\* invalid results up in the validation cache
ValidationGetApprovalInstance ==
    /\ cur.pc = "validation_fetch"
    /\ LET c0 == Called(cur, "get_approval_instance")
       IN  IF c0.world = None
           THEN /\ Finish([c0 EXCEPT !.failed_call = "get_approval_instance"],
                          FALSE, "no_instance")
                /\ UNCHANGED cacheVars
           ELSE LET validation_results ==
                        RunAllValidations(c0.world.form, c0.world.task_list, DummyNodeId)
                    invalid_results == InvalidResults(validation_results)
                    c == [c0 EXCEPT !.validation_results = validation_results]
                    f == FilterAlerts(validation_alert_cache, c.instance_code,
                                      invalid_results, now)
                    c2 == [c EXCEPT !.alerts_to_send = f.alerts_to_send,
                                    !.skipped_count = f.skipped_count]
                IN  IF invalid_results = <<>>
                    THEN Finish(c, TRUE, "all_valid") /\ UNCHANGED cacheVars
                    ELSE /\ validation_alert_cache' = f.cache
                         /\ lookup' = NoLookup
                         /\ UNCHANGED <<now, qr_generation_cache, marked>>
                         /\ IF f.alerts_to_send = <<>>
                            THEN Finish(c2, TRUE, "all_cached")
                            ELSE cur' = [c2 EXCEPT !.pc = "validation_alert"]
                                 /\ UNCHANGED done

\* _send_validation_alert returns; the keys of the results sent are marked
\* when it reports success, and the handler reports success either way
SendValidationAlert(ok) ==
    /\ cur.pc = "validation_alert"
    /\ LET error_messages ==
               [n \in 1..Len(cur.alerts_to_send) |-> cur.alerts_to_send[n].message]
           c == [Called(cur, "send_validation_alert")
                   EXCEPT !.alerts = Append(@, error_messages),
                          !.webhook_sent = ok,
                          !.failed_call = IF ok THEN @ ELSE "send_validation_alert"]
       IN  IF MarksAfterSend(ok)
           THEN /\ validation_alert_cache' =
                       MarkAll(validation_alert_cache, <<>>, c.instance_code,
                               c.alerts_to_send, now)
                /\ marked' = MarkAll(marked, <<"validation">>, c.instance_code,
                                     c.alerts_to_send, now)
                /\ lookup' = NoLookup
                /\ UNCHANGED <<now, qr_generation_cache>>
                /\ Finish([c EXCEPT !.marks = Len(c.alerts_to_send)],
                          TRUE, IF ok THEN "alert_sent" ELSE "alert_failed")
           ELSE /\ UNCHANGED cacheVars
                /\ Finish(c, TRUE, "alert_failed")

\* a minute passes
ValidationWait ==
    /\ Tick
    /\ UNCHANGED qrVars

InitValidationHandler == QrIdle /\ CacheIdle /\ FnIdle /\ BusIdle
NextValidationHandler ==
    \/ \E e \in ValidationInputs :
          /\ ValidationHandleApprovalEvent(e.instance_code, e.approval_code,
                                           e.object_status, e.event_status, e.world)
          /\ UNCHANGED <<fnVars, busVars>>
    \/ \E ok \in BOOLEAN :
          ValidationGetAccessToken(ok) /\ UNCHANGED <<fnVars, busVars>>
    \/ (ValidationGetApprovalInstance /\ UNCHANGED <<fnVars, busVars>>)
    \/ \E ok \in BOOLEAN :
          SendValidationAlert(ok) /\ UNCHANGED <<fnVars, busVars>>
    \/ (ValidationWait /\ UNCHANGED <<fnVars, busVars>>)
SpecValidationHandler == InitValidationHandler /\ [][NextValidationHandler]_vars

(***************************************************************************)
(* The validation handler with the notification webhook service behind    *)
(* _send_validation_alert.  The settings are fixed when the process       *)
(* starts; arg.posted remembers the invocations whose alert was posted,   *)
(* by their position in `done`.                                            *)
(***************************************************************************)
FailingInstance == ValidationInstance(Num(10002), Missing)
Responses == {"200", "500", "Timeout", "ConnectionError"}
WebhookUrls == {"", "https://open.larksuite.com/open-apis/bot/v2/hook"}

\* send_validation_alert of the webhook service: the success it reports and
\* whether requests.post delivered the message and got a response
WebhookSendValidationAlert(enabled, webhook_url, response) ==
    IF ~enabled
    THEN [success |-> TRUE, posted |-> FALSE]
    ELSE IF webhook_url = ""
    THEN [success |-> FALSE, posted |-> FALSE]
    ELSE IF response \in {"Timeout", "ConnectionError"}
    THEN [success |-> FALSE, posted |-> FALSE]
    ELSE [success |-> response = "200", posted |-> TRUE]

InitAlerting ==
    /\ CacheIdle /\ BusIdle /\ QrIdle /\ ret = NotCalled
    /\ \E enabled \in BOOLEAN, url \in WebhookUrls :
          arg = [fn |-> "settings", ENABLE_VALIDATION_ALERTS |-> enabled,
                 LARK_WEBHOOK_URL |-> url, posted |-> {}]
NextAlerting ==
    \/ \E ic \in InstanceCodes, w \in {FailingInstance, ActiveInstance} :
          /\ ValidationHandleApprovalEvent(ic, "W1", None, None, w)
          /\ UNCHANGED <<fnVars, busVars>>
    \/ \E ok \in BOOLEAN :
          ValidationGetAccessToken(ok) /\ UNCHANGED <<fnVars, busVars>>
    \/ (ValidationGetApprovalInstance /\ UNCHANGED <<fnVars, busVars>>)
    \/ \E response \in Responses :
          LET result == WebhookSendValidationAlert(arg.ENABLE_VALIDATION_ALERTS,
                                                   arg.LARK_WEBHOOK_URL, response)
          IN  /\ SendValidationAlert(result.success)
              /\ arg' = [arg EXCEPT !.posted = IF result.posted
                                               THEN @ \cup {Len(done) + 1}
                                               ELSE @]
              /\ UNCHANGED <<ret, busVars>>
    \/ (ValidationWait /\ UNCHANGED <<fnVars, busVars>>)
SpecAlerting == InitAlerting /\ [][NextAlerting]_vars

(***************************************************************************)
(* Both handlers of the approval event, one invocation at a time, on a few *)
(* events: an active instance, an instance the source does not return, and *)
(* events that carry a final status.                                       *)
(***************************************************************************)
CanceledActive  == WithStatus(ActiveInstance, Str("CANCELED"))
CanceledFailing == WithStatus(FailingInstance, Str("CANCELED"))
InitHandlers == Init
NextHandlers ==
    \/ \E ic \in InstanceCodes,
           e \in {<<None, ActiveInstance>>, <<Str("CANCELED"), ActiveInstance>>,
                  <<None, CanceledActive>>} :
          /\ HandleApprovalEvent(ic, "W1", e[1], e[2])
          /\ UNCHANGED <<fnVars, busVars>>
    \/ \E ok \in BOOLEAN :
          GetAccessToken(ok) /\ UNCHANGED <<fnVars, busVars>>
    \/ \E ic \in InstanceCodes, w \in {ActiveInstance, CanceledActive, None} :
          /\ ProcessApprovalWithQrComment(ic, "W1", w)
          /\ UNCHANGED <<fnVars, busVars>>
    \/ \E ok \in BOOLEAN :
          GetApprovalInstance(ok) /\ UNCHANGED <<fnVars, busVars>>
    \/ \E ok \in BOOLEAN :
          UploadImageToApproval(ok) /\ UNCHANGED <<fnVars, busVars>>
    \/ \E ok \in BOOLEAN :
          CreateEnhancedCommentWithImage(ok) /\ UNCHANGED <<fnVars, busVars>>
    \/ \E ic \in InstanceCodes,
           e \in {<<None, FailingInstance>>, <<None, None>>,
                  <<Str("REJECTED"), FailingInstance>>, <<None, CanceledFailing>>} :
          /\ ValidationHandleApprovalEvent(ic, "W1", e[1], None, e[2])
          /\ UNCHANGED <<fnVars, busVars>>
    \/ \E ok \in BOOLEAN :
          ValidationGetAccessToken(ok) /\ UNCHANGED <<fnVars, busVars>>
    \/ (ValidationGetApprovalInstance /\ UNCHANGED <<fnVars, busVars>>)
    \/ \E ok \in BOOLEAN :
          SendValidationAlert(ok) /\ UNCHANGED <<fnVars, busVars>>
    \/ (Wait /\ UNCHANGED <<fnVars, busVars>>)
SpecHandlers == InitHandlers /\ [][NextHandlers]_vars

(***************************************************************************)
(* The bus delivering an approval event to the handlers subscribed to it.  *)
(* A task runs its handler from the first step to the return before the    *)
(* next task starts: no handler suspends (every awaited collaborator makes *)
(* a blocking request).  arg holds the event_data of the publish call.     *)
(* The handlers are those register_domain_handlers subscribes at start-up. *)
(***************************************************************************)
EventData ==
    { [instance_code |-> ic, approval_code |-> "W1", status |-> st[1],
       fetched |-> st[2]]
        : ic \in InstanceCodes,
          st \in {<<None, TRUE>>, <<None, FALSE>>, <<Str("CANCELED"), TRUE>>} }

PublishEvent(event_type, event_data) ==
    /\ Len(event_history) < MaxPublishes
    /\ Len(done) + Len(Subscribed(event_type)) <= MaxInvocations
    /\ cur = NoInvocation
    /\ Publish(event_type)
    /\ arg' = [fn |-> "publish", event_data |-> event_data]
    /\ UNCHANGED <<ret, cacheVars, qrVars>>

\* the event loop starts task i: the wrapper calls the handler, which runs
\* up to its first external call
RunTask(i) ==
    /\ StartTask(i)
    /\ cur = NoInvocation
    /\ LET e == arg.event_data
       IN  IF pub.tasks[i].handler.id = "qr"
           THEN HandleApprovalEvent(e.instance_code, e.approval_code, e.status,
                    IF e.fetched THEN ActiveInstance ELSE None)
           ELSE IF pub.tasks[i].handler.id = "validation"
           THEN ValidationHandleApprovalEvent(e.instance_code, e.approval_code,
                    e.status, None, IF e.fetched THEN FailingInstance ELSE None)
           ELSE UNCHANGED <<cacheVars, qrVars>>
    /\ UNCHANGED fnVars

\* the handler of task i has returned or raised and the wrapper ends
EndTask(i) ==
    /\ cur = NoInvocation
    /\ FinishTask(i)
    /\ UNCHANGED <<fnVars, cacheVars, qrVars>>

\* the steps of the handler that is running
HandlerStep ==
    \/ \E ok \in BOOLEAN : GetAccessToken(ok)
    \/ \E ok \in BOOLEAN : GetApprovalInstance(ok)
    \/ \E ok \in BOOLEAN : UploadImageToApproval(ok)
    \/ \E ok \in BOOLEAN : CreateEnhancedCommentWithImage(ok)
    \/ \E ok \in BOOLEAN : ValidationGetAccessToken(ok)
    \/ ValidationGetApprovalInstance
    \/ \E ok \in BOOLEAN : SendValidationAlert(ok)

\* the registrations of register_domain_handlers, in its order
RegisteredHandlers ==
    [t \in {"approval.instance.updated"} |->
        <<[name |-> "handle_approval_event", id |-> "qr", raises |-> FALSE],
          [name |-> "handle_approval_event", id |-> "validation", raises |-> FALSE]>>]

InitDelivery ==
    /\ QrIdle /\ CacheIdle /\ FnIdle
    /\ handlers = RegisteredHandlers /\ event_history = <<>> /\ pub = NoPublish
\* what the event loop and the collaborators do once an event is published
Progress ==
    \/ \E i \in 1..MaxSubscriptions : RunTask(i)
    \/ (HandlerStep /\ UNCHANGED <<fnVars, busVars>>)
    \/ \E i \in 1..MaxSubscriptions : EndTask(i)
    \/ (PublishReturn /\ UNCHANGED <<fnVars, cacheVars, qrVars>>)
NextDelivery ==
    \/ \E t \in EventTypes, e \in EventData : PublishEvent(t, e)
    \/ Progress
    \/ \E ic \in InstanceCodes :
          /\ pub.phase = "idle"
          /\ ProcessApprovalWithQrComment(ic, "W1", ActiveInstance)
          /\ UNCHANGED <<fnVars, busVars>>
SpecDelivery == InitDelivery /\ [][NextDelivery]_vars

\* every external call returns, the event loop runs every task it holds and
\* resumes publish when the tasks are done
FairDelivery == SpecDelivery /\ WF_vars(Progress)

(***************************************************************************)
(* ValidationService.run_all_validations as a function of the form, the    *)
(* task list and the node id.  Every rule catches what its body raises, so *)
(* the call returns the list of the results.                               *)
(***************************************************************************)
\* the keys of the validation_rules dict
RegisteredRules ==
    {"ADVANCE_AMOUNT_MISMATCH", "PAYMENT_AMOUNT_MISMATCH", "WORKFLOW_STATUS",
     "FIELD_CONSISTENCY"}
ManualNodeId == <<"manual_validation">>

\* forms: no advance data, or the declared advance of round 1 (a number or
\* a text) with one accounting row (equal, different or null); no payment
\* data, or a payment row with a remaining amount (equal, different, a text)
AdvanceParts ==
    { <<>> } \cup
    { <<Field(Format(UserAdvanceTemplate, 1), "amount", d),
        Field(ACCOUNTING_ADVANCE_INFO, "fieldList", Rows(<<AccountingRow(v)>>))>>
        : d \in {Num(10000), Str("abc")}, v \in {Num(10000), Num(10002), None} }
PaymentParts ==
    { <<>> } \cup
    { <<Field(ACCOUNTING_PAYMENT_INFO, "fieldList",
              Rows(<<AccountingRow(Num(10000))>>)),
        Field(REMAINING_PAYMENT_AMOUNT, "amount", due)>>
        : due \in {Num(10000), Num(10002), Str("abc")} }
RuleTaskLists ==
    { <<>> } \cup
    { <<[node_id |-> ManualNodeId, node_name |-> CashierA, status |-> st]>>
        : st \in {"PENDING", "REJECTED"} }
RunAllInputs ==
    { [fn |-> "run_all_validations", form_data |-> a \o p, task_list |-> tl,
       node_id |-> id]
        : a \in AdvanceParts, p \in PaymentParts, tl \in RuleTaskLists,
          id \in {DummyNodeId, ManualNodeId} }

CallRunAllValidations ==
    /\ arg.fn = "run_all_validations"
    /\ ~ret.done
    /\ ret' = Returned(RunAllValidations(arg.form_data, arg.task_list, arg.node_id))
    /\ UNCHANGED <<arg, cacheVars, busVars, qrVars>>

InitRules == /\ arg \in RunAllInputs
             /\ ret = NotCalled
             /\ CacheIdle /\ BusIdle /\ QrIdle
NextRules == CallRunAllValidations
SpecRules == InitRules /\ [][NextRules]_vars

(***************************************************************************)
(* handle_lark_webhook, the POST /webhook endpoint.                        *)
(*                                                                         *)
(* A payload is the body of the request: it parses as JSON or not, and the *)
(* parsed value is an object or something else (an array).  Of an object   *)
(* the keys the endpoint reads are kept: type, challenge, header (absent,  *)
(* or an object with or without event_type), event.type,                   *)
(* event.instance_code, event.object.instance_code, event.approval_code.   *)
(* Strings the endpoint searches are sequences of characters.  `arg` is    *)
(* the request in flight with the length of the event history when it      *)
(* came in, `ret` the response.  One request is followed at a time.        *)
(***************************************************************************)
NeedleApproval  == <<"a", "p", "p", "r", "o", "v", "a", "l">>
ApprovalInstance == Str(NeedleApproval \o <<"_", "i">>)
UpperApproval   == Str(<<"A", "P", "P", "R", "O", "V", "A", "L">>)
ImMessage       == Str(<<"i", "m">>)
Unknown         == Str(<<"u", "n", "k", "n", "o", "w", "n">>)
UrlVerification == Str(<<"u", "r", "l", "_", "v", "e", "r", "i", "f", "i", "c",
                         "a", "t", "i", "o", "n">>)

\* str.lower() on the letters met here
LowerChar(ch) ==
    CASE ch = "A" -> "a" [] ch = "P" -> "p" [] ch = "R" -> "r" [] ch = "O" -> "o"
      [] ch = "V" -> "v" [] ch = "L" -> "l" [] OTHER -> ch
Lower(s) == [n \in 1..Len(s) |-> LowerChar(s[n])]

\* dict.get(key, default)
GetOr(v, default) == IF v = Missing THEN default ELSE v

\* extract_instance_code: the value of event.instance_code when the event
\* has the key, else the value of event.object.instance_code, else None
ExtractInstanceCode(data) ==
    IF data.instance_code # Missing THEN data.instance_code
    ELSE IF data.object_instance_code # Missing THEN data.object_instance_code
    ELSE None

\* get_event_type
GetEventType(data) ==
    IF data.header # Missing THEN GetOr(data.header.event_type, Unknown)
    ELSE IF data.event_type # Missing THEN data.event_type
    ELSE GetOr(data.type, Unknown)

\* the test with the bug of taking every event for an approval event
NamesAnything(event_type) == TRUE
\* "approval" in event_type.lower()
NamesApproval(event_type) == IsSubstring(NeedleApproval, Lower(event_type.s))

\* the responses
Acknowledgment   == [status_code |-> 200, status |-> "success", architecture |-> "DDD"]
Challenge(v)     == [status_code |-> 200, challenge |-> v]
ServerError      == [status_code |-> 500]

\* the requests: an approval event with every combination of the three
\* identifiers, a fully identified event with every way of naming its type,
\* and url_verification requests
IdentifiedEvent ==
    [parses |-> TRUE, object |-> TRUE, type |-> Missing, challenge |-> Missing,
     header |-> [event_type |-> ApprovalInstance], event_type |-> Missing,
     instance_code |-> Str(<<"I", "1">>), object_instance_code |-> Missing,
     approval_code |-> Str("W1")]
JsonObjects ==
    { [IdentifiedEvent EXCEPT !.instance_code = ic, !.object_instance_code = oic,
                              !.approval_code = ac]
        : ic \in {Missing, None, Str(<<"I", "1">>)},
          oic \in {Missing, Str(<<"I", "2">>)},
          ac \in {Missing, Str(""), Str("W1")} }
    \cup
    { [IdentifiedEvent EXCEPT !.header = h, !.event_type = et]
        : h \in {Missing, [event_type |-> Missing], [event_type |-> ImMessage],
                 [event_type |-> Num(5)]},
          et \in {Missing, UpperApproval} }
    \cup
    { [IdentifiedEvent EXCEPT !.type = UrlVerification, !.challenge = ch, !.header = h]
        : ch \in {Missing, Str(<<"c">>)},
          h \in {Missing, [event_type |-> ApprovalInstance]} }
Payloads ==
    JsonObjects \cup {[parses |-> FALSE], [parses |-> TRUE, object |-> FALSE]}

\* the handlers the application may have registered: the pool of the bus
\* and a handler that returns {"success": False}
WebhookHandlerPool ==
    HandlerPool \cup
    {[name |-> "handle_approval_event", id |-> "reports_failure", raises |-> FALSE]}

\* the body of the endpoint after request.json(), up to the publish call:
\* "raise" (an exception reaches the except clause), "publish", or the
\* response returned without a publish
Dispatch(data) ==
    IF ~data.object THEN "raise"                         \* data.get of a list
    ELSE IF data.type = UrlVerification THEN "challenge"
    ELSE IF GetEventType(data).t # "str" THEN "raise"    \* event_type.lower()
    ELSE IF /\ NamesApproval(GetEventType(data))
            /\ Truthy(ExtractInstanceCode(data))
            /\ Truthy(GetOr(data.approval_code, None))
         THEN "publish"
         ELSE "acknowledge"

\* the endpoint up to its await of publish
HandleLarkWebhook(payload) ==
    /\ arg.fn = "none" \/ ret.done
    /\ arg' = [fn |-> "handle_lark_webhook", payload |-> payload,
               history_before |-> Len(event_history)]
    /\ IF ~payload.parses
       THEN ret' = Returned(ServerError) /\ UNCHANGED busVars
       ELSE CASE Dispatch(payload) = "raise" ->
                    ret' = Returned(ServerError) /\ UNCHANGED busVars
              [] Dispatch(payload) = "challenge" ->
                    /\ ret' = Returned(Challenge(GetOr(payload.challenge, None)))
                    /\ UNCHANGED busVars
              [] Dispatch(payload) = "acknowledge" ->
                    ret' = Returned(Acknowledgment) /\ UNCHANGED busVars
              [] Dispatch(payload) = "publish" ->
                    ret' = NotCalled /\ Publish("approval.instance.updated")

\* the return with the bug of answering a handler failure with an error
HandleLarkWebhookReturnChecking ==
    /\ arg.fn = "handle_lark_webhook"
    /\ ~ret.done
    /\ pub.phase = "returned"
    /\ ret' = Returned(IF \E n \in 1..Len(pub.results) : ~pub.results[n].success
                       THEN ServerError ELSE Acknowledgment)
    /\ UNCHANGED <<arg, busVars>>

\* publish has returned its results, which the endpoint drops
HandleLarkWebhookReturn ==
    /\ arg.fn = "handle_lark_webhook"
    /\ ~ret.done
    /\ pub.phase = "returned"
    /\ ret' = Returned(Acknowledgment)
    /\ UNCHANGED <<arg, busVars>>

InitWebhook == BusIdle /\ FnIdle /\ CacheIdle /\ QrIdle
NextWebhook ==
    \/ \E h \in WebhookHandlerPool :
          /\ arg.fn = "none"
          /\ Subscribe("approval.instance.updated", h)
          /\ UNCHANGED <<fnVars, cacheVars, qrVars>>
    \/ \E p \in Payloads :
          /\ Len(event_history) < MaxPublishes
          /\ HandleLarkWebhook(p)
          /\ UNCHANGED <<cacheVars, qrVars>>
    \/ \E i \in 1..MaxSubscriptions :
          /\ (StartTask(i) \/ FinishTask(i))
          /\ UNCHANGED <<fnVars, cacheVars, qrVars>>
    \/ (PublishReturn /\ UNCHANGED <<fnVars, cacheVars, qrVars>>)
    \/ (HandleLarkWebhookReturn /\ UNCHANGED <<cacheVars, qrVars>>)
SpecWebhook == InitWebhook /\ [][NextWebhook]_vars

(***************************************************************************)
(*                               CLAIMS                                    *)
(***************************************************************************)
Min(S) == CHOOSE x \in S : \A y \in S : x <= y

\* ---- trigger resolver -------------------------------------------------
\* the tasks configuration c examines, in the order it examines them
Candidates(c) ==
    MatchingNodes(arg.task_list, arg.qr_trigger_configs[c].node_name_contains)

\* the pairs (c, i) whose task is in the required status and whose round's
\* yes/no field resolves to "Yes"
ActivePairs ==
    { p \in (1..Len(arg.qr_trigger_configs)) \X (1..MaxTasks) :
        /\ p[2] <= Len(Candidates(p[1]))
        /\ Candidates(p[1])[p[2]].status = arg.qr_trigger_configs[p[1]].status
        /\ ExtractFieldValue(arg.form_data,
               Format(arg.qr_trigger_configs[p[1]].yes_no_field_template, p[2]))
             = Str("Yes") }

FirstPair ==
    CHOOSE p \in ActivePairs :
        \A q \in ActivePairs : p[1] < q[1] \/ (p[1] = q[1] /\ p[2] <= q[2])

\* C4: the resolver returns the trigger of the first (configuration, task)
\* pair, configurations in declaration order and the matching tasks of a
\* configuration in the order they are examined, whose task is in the
\* required status and whose round is confirmed with "Yes"; it returns none
\* exactly when there is no such pair.
C4_FirstPairWins ==
    (arg.fn = "find_active_qr_trigger" /\ ret.done) =>
        IF ActivePairs = {}
        THEN ret.value = NoTrigger
        ELSE LET c == FirstPair[1]
                 i == FirstPair[2]
                 cfg == arg.qr_trigger_configs[c]
             IN  /\ ret.value.found
                 /\ ret.value.trigger_round = i
                 /\ ret.value.node_id = Candidates(c)[i].node_id
                 /\ ret.value.node_name = Candidates(c)[i].node_name
                 /\ ret.value.qr_type = cfg.qr_type
                 /\ ret.value.field_used = Format(cfg.amount_field_template, i)
                 /\ ret.value.amount = RoundAmount(cfg, i)

\* a call in which both configurations have an active pair, the first
\* configuration has two, and the resolver has answered
C4_Witness ==
    /\ arg.fn = "find_active_qr_trigger" /\ ret.done
    /\ Len(arg.qr_trigger_configs) = 2
    /\ \E p, q, r \in ActivePairs : p[1] = 1 /\ q[1] = 1 /\ p[2] # q[2] /\ r[1] = 2
    /\ ret.value.found

\* C5: a same-named task in another status is skipped but keeps its round
\* index and later same-named tasks are still examined: when every task has
\* the same cashier name, the advance configuration returns the first task
\* that is PENDING and whose own round (its position in the task list) is
\* confirmed, with that round's amount. For statuses
\* [APPROVED, PENDING, PENDING], round 2 confirmed and round 3 without a
\* confirmation field, that is round 2.
SameNamedCashiers ==
    /\ Len(arg.task_list) > 0
    /\ \A k \in 1..Len(arg.task_list) :
          arg.task_list[k].node_name = arg.task_list[1].node_name
    /\ arg.task_list[1].node_name # Manager

ConfirmedPending ==
    { k \in 1..Len(arg.task_list) :
        /\ arg.task_list[k].status = "PENDING"
        /\ ExtractFieldValue(arg.form_data,
               Format(AdvanceConfig.yes_no_field_template, k)) = Str("Yes") }

C5_RoundRobust ==
    (/\ arg.fn = "find_active_qr_trigger" /\ ret.done
     /\ arg.qr_trigger_configs[1] = AdvanceConfig
     /\ SameNamedCashiers
     /\ ConfirmedPending # {}) =>
        /\ ret.value.found
        /\ ret.value.qr_type = "advance"
        /\ ret.value.trigger_round = Min(ConfirmedPending)
        /\ ret.value.node_id = arg.task_list[Min(ConfirmedPending)].node_id
        /\ ret.value.amount = RoundAmount(AdvanceConfig, Min(ConfirmedPending))

\* the scenario of the claim, answered with round 2
C5_Witness ==
    /\ arg.fn = "find_active_qr_trigger" /\ ret.done
    /\ arg.qr_trigger_configs = <<AdvanceConfig>>
    /\ SameNamedCashiers
    /\ Len(arg.task_list) = 3
    /\ arg.task_list[1].status = "APPROVED"
    /\ arg.task_list[2].status = "PENDING"
    /\ arg.task_list[3].status = "PENDING"
    /\ ExtractFieldValue(arg.form_data,
           Format(AdvanceConfig.yes_no_field_template, 2)) = Str("Yes")
    /\ ExtractFieldValue(arg.form_data,
           Format(AdvanceConfig.yes_no_field_template, 3)) = None
    /\ ret.value.found
    /\ ret.value.trigger_round = 2
    /\ ret.value.amount = RoundAmount(AdvanceConfig, 2)

\* ---- field extractor --------------------------------------------------
TopLevelHits ==
    { k \in 1..Len(arg.form_data) : arg.form_data[k].name = arg.field_name }
NestedHits ==
    { k \in 1..Len(arg.form_data) :
        /\ arg.form_data[k].type = "fieldList"
        /\ arg.form_data[k].value.t = "rows"
        /\ \E r \in 1..Len(arg.form_data[k].value.rows) :
             \E j \in 1..Len(arg.form_data[k].value.rows[r]) :
                arg.form_data[k].value.rows[r][j].name = arg.field_name }

\* C6: when a field name occurs both as a top-level field and inside a row
\* of a repeating group, extract_field_value returns the top-level value,
\* whether the group comes before or after the top-level field.
C6_TopLevelFirst ==
    (/\ arg.fn = "extract_field_value" /\ ret.done
     /\ TopLevelHits # {} /\ NestedHits # {}) =>
        ret.value = GetValue(arg.form_data[Min(TopLevelHits)])

\* ---- validation rules -------------------------------------------------
AdvanceAccountant ==
    ExtractAllValuesFromFieldlist(arg.form_data, ACCOUNTING_ADVANCE_INFO,
                                  EXPENDITURE_AMOUNT)
AdvanceDeclared(i) == ExtractFieldValue(arg.form_data, Format(UserAdvanceTemplate, i))
AdvanceSideAbsent(i) ==
    \/ AdvanceDeclared(i) = None
    \/ i > Len(AdvanceAccountant)
    \/ AdvanceAccountant[i] = None
AdvanceDifference(i) ==
    IF /\ ~AdvanceSideAbsent(i)
       /\ Parses(AdvanceDeclared(i)) /\ Parses(AdvanceAccountant[i])
    THEN Abs(AdvanceDeclared(i).n - AdvanceAccountant[i].n)
    ELSE -1
InvalidForRound(i) ==
    \E k \in 1..Len(ret.value) :
        ret.value[k].status = "INVALID" /\ ret.value[k].message.i = i

PaymentAccountant ==
    ExtractFieldFromFieldlist(arg.form_data, ACCOUNTING_PAYMENT_INFO, EXPENDITURE_AMOUNT)
PaymentOther ==
    IF ExtractFieldValue(arg.form_data, REMAINING_PAYMENT_AMOUNT) # None
    THEN ExtractFieldValue(arg.form_data, REMAINING_PAYMENT_AMOUNT)
    ELSE ExtractFieldValue(arg.form_data, PAYMENT_AMOUNT)
PaymentDifference ==
    IF Parses(PaymentAccountant) /\ Parses(PaymentOther)
    THEN Abs(PaymentAccountant.n - PaymentOther.n)
    ELSE -1

\* C7: in both amount rules (amounts in hundredths) two present amounts that
\* differ by exactly 0.01 are VALID, by 0.02 INVALID, and a comparison with
\* an absent side is SKIPPED and never INVALID.
C7_Tolerance ==
    /\ (arg.fn = "validate_payment_amount_mismatch" /\ ret.done) =>
          /\ (PaymentAccountant = None \/ PaymentOther = None)
                => ret.value.status = "SKIPPED"
          /\ PaymentDifference = 1 => ret.value.status = "VALID"
          /\ PaymentDifference = 2 => ret.value.status = "INVALID"
    /\ (arg.fn = "validate_advance_amount_mismatch" /\ ret.done) =>
          /\ \A i \in 1..AdvanceRounds :
                /\ AdvanceSideAbsent(i) => ~InvalidForRound(i)
                /\ AdvanceDifference(i) = 1 => ~InvalidForRound(i)
                /\ AdvanceDifference(i) = 2 => InvalidForRound(i)
          /\ (\A i \in 1..AdvanceRounds : AdvanceSideAbsent(i))
                => (Len(ret.value) = 1 /\ ret.value[1].status = "SKIPPED")
          /\ (/\ \E i \in 1..AdvanceRounds : AdvanceDifference(i) >= 0
              /\ \A i \in 1..AdvanceRounds : AdvanceDifference(i) \in {-1, 0, 1}
              /\ \A i \in 1..AdvanceRounds :
                    AdvanceSideAbsent(i) \/ AdvanceDifference(i) >= 0)
                => (Len(ret.value) = 1 /\ ret.value[1].status = "VALID")

\* ---- cache ------------------------------------------------------------
\* C2 as stated: a key marked at T and not marked again is reported seen
\* exactly at the lookup times strictly before T + TTL.
C2_ExpiredFromTtl ==
    (lookup.cache # "none" /\ lookup.markedAt # NeverMarked) =>
        (lookup.result <=> (lookup.at < lookup.markedAt + lookup.duration))

\* C2 as the code has it: a key marked at T, not marked again and not
\* cleared, is reported seen exactly at the lookup times up to and including
\* T + TTL, and not seen at every later time.
C2_SeenThroughTtl ==
    (lookup.cache # "none" /\ lookup.markedAt # NeverMarked) =>
        (lookup.result <=> (lookup.at <= lookup.markedAt + lookup.duration))

\* lookups exactly at T + TTL, answered "seen"
C2_Witness ==
    /\ lookup.cache = "validation"
    /\ lookup.markedAt # NeverMarked
    /\ lookup.at = lookup.markedAt + ValidationCacheMinutes
    /\ lookup.result

\* ---- event bus ---------------------------------------------------------
\* an outcome dict of the wrapper (not an exception object)
IsOutcome(r) == "success" \in DOMAIN r

\* the outcome r comes from a call of handler h
BelongsTo(r, h) ==
    /\ IsOutcome(r)
    /\ r.handler = h.name
    /\ IF r.success THEN r.result.service = h.id ELSE r.error = h.id

\* the publish call has returned
Published == pub.phase = "returned"

\* C3: a publish to two handlers of which one throws returns only after
\* both have run to completion, and returns two outcomes: success = false
\* with the error for the throwing handler, success = true for the other.
C3_HandlerIsolation ==
    (/\ Published
     /\ Len(pub.tasks) = 2
     /\ pub.tasks[1].handler.raises # pub.tasks[2].handler.raises) =>
        /\ \A i \in 1..2 : pub.tasks[i].state = "done"
        /\ Len(pub.results) = 2
        /\ \A i \in 1..2 :
              /\ IsOutcome(pub.results[i])
              /\ pub.results[i].success = ~pub.tasks[i].handler.raises
              /\ ~pub.results[i].success => pub.results[i].error = pub.tasks[i].handler.id
        /\ \E i, j \in 1..2 : ~pub.results[i].success /\ pub.results[j].success

\* a returned publish to two handlers where the throwing one was subscribed
\* first and finished before the other started
C3_Witness ==
    /\ Published
    /\ Len(pub.tasks) = 2
    /\ pub.tasks[1].handler.raises /\ ~pub.tasks[2].handler.raises
    /\ pub.finished = <<1, 2>>
    /\ pub.results[2].success

\* C9: the i-th outcome of a publish belongs to the i-th handler subscribed
\* to the event type, whatever the order in which the handlers finished.
C9_SubscriptionOrder ==
    Published =>
        /\ Len(pub.results) = Len(pub.tasks)
        /\ \A i \in 1..Len(pub.results) :
              BelongsTo(pub.results[i], Subscribed(pub.event_type)[i])

\* a returned publish whose handlers differ and finished in the reverse of
\* the subscription order
C9_Witness ==
    /\ Published
    /\ Len(pub.tasks) >= 2
    /\ pub.tasks[1].handler # pub.tasks[2].handler
    /\ pub.finished[1] = 2

\* C10: a publish of an event type without a handler returns the empty list,
\* runs no handler, and appends exactly one history record, whose handler
\* count is 0.
C10_NoHandler ==
    (Published /\ pub.tasks = <<>>) =>
        /\ pub.results = <<>>
        /\ pub.finished = <<>>
        /\ Len(event_history) = pub.history_before + 1
        /\ event_history[Len(event_history)].event_type = pub.event_type
        /\ event_history[Len(event_history)].handlers_count = 0

\* a returned publish of an event type without a handler while the other
\* event type has one
C10_Witness ==
    /\ Published
    /\ pub.tasks = <<>>
    /\ pub.event_type \notin DOMAIN handlers
    /\ handlers # EmptyMap
    /\ event_history # <<>>

\* ---- QR handler ----------------------------------------------------------
\* the trigger of the instance the invocation d is about is active
TriggerIsActive(d) ==
    /\ d.world # None
    /\ GetWorkflowConfig(d.approval_code) # None
    /\ FindActiveQrTrigger(d.world.task_list, d.world.form,
           GetWorkflowConfig(d.approval_code).qr_trigger_nodes).found

TerminalStatuses == {Str("CANCELED"), Str("REJECTED"), Str("DELETED")}

\* C1: when the first two invocations are handler invocations for the same
\* instance, in a status that is not terminal, with an active trigger and
\* no failing external call, and both end within the 5 minutes after the
\* first began, they make one upload and one comment in total and the second
\* one reports success as a duplicate skip.
C1_IdempotentQr ==
    (/\ Len(done) >= 2
     /\ now <= QR_CACHE_DURATION_MINUTES
     /\ \A i \in 1..2 :
           /\ done[i].entry = "handler"
           /\ done[i].instance_code # NoInstanceCode
           /\ done[i].status \notin TerminalStatuses
           /\ done[i].failed_call = "none"
           /\ TriggerIsActive(done[i])
     /\ done[1].instance_code = done[2].instance_code
     /\ done[1].world = done[2].world) =>
        /\ done[1].uploads + done[2].uploads = 1
        /\ done[1].comments + done[2].comments = 1
        /\ done[2].success
        /\ done[2].outcome = "duplicate"

\* C8: a handler invocation for an event that names its instance and whose
\* status is CANCELED, REJECTED or DELETED ends in success as a skip, without
\* a call of the trigger resolver, an upload, a comment or a cache write.
C8_FinalStatusSkipped ==
    \A i \in 1..Len(done) :
        (/\ done[i].entry = "handler"
         /\ done[i].instance_code # NoInstanceCode
         /\ done[i].status \in TerminalStatuses) =>
            /\ done[i].success
            /\ done[i].outcome = "skipped_final_status"
            /\ done[i].resolver_calls = 0
            /\ done[i].uploads = 0
            /\ done[i].comments = 0
            /\ done[i].marks = 0

\* a finished handler invocation for a CANCELED event, after the key of the
\* instance's trigger has been marked by a completed processor call
C8_Witness ==
    /\ Len(done) = 2
    /\ done[1].outcome = "completed"
    /\ done[2].entry = "handler"
    /\ done[2].status = Str("CANCELED")
    /\ done[2].instance_code = done[1].instance_code
    /\ done[2].success

\* ---- event handlers: missing identifiers ---------------------------------
\* An event that lacks one of its two identifiers.
LacksIdentifier(d) ==
    d.instance_code = NoInstanceCode \/ d.approval_code = NoApprovalCode

\* C12: an event handler invocation whose event lacks instance_code or
\* approval_code reports failure, has called no external collaborator and
\* has written no cache entry.
C12_FailFast ==
    \A n \in 1 .. Len(done) :
        (done[n].entry # "processor" /\ LacksIdentifier(done[n]))
            => /\ ~done[n].success
               /\ done[n].calls = <<>>
               /\ done[n].marks = 0

\* ---- QR processor: the dedup entry ---------------------------------------
\* the invocations: the finished ones and the one in progress
Invocations ==
    {done[n] : n \in 1..Len(done)} \cup (IF cur = NoInvocation THEN {} ELSE {cur})

\* the positions of the calls of `name` in the call history of c
CallsOf(c, name) == {n \in 1..Len(c.calls) : c.calls[n] = name}

\* the outcomes of a failed amount validation, bank-field resolution,
\* rendering or upload
FailuresBeforeMark ==
    {"invalid_amount", "missing_field_mapping", "missing_bank_info",
     "no_qr_image", "upload_failed"}

\* C13: in every invocation the dedup entry is written only right after an
\* upload that succeeded and before any comment post; every entry of the QR
\* cache was written by such an invocation; an invocation that failed at
\* the amount, the bank fields, the rendering or the upload wrote no entry.
C13_MarkAfterUpload ==
    /\ \A c \in Invocations :
          /\ c.marks = Cardinality(CallsOf(c, "mark_qr_as_generated"))
          /\ c.marks <= c.uploads
          /\ \A n \in CallsOf(c, "mark_qr_as_generated") :
                /\ n > 1
                /\ c.calls[n - 1] = "upload_image_to_approval"
                /\ c.failed_call # "upload_image_to_approval"
                /\ \A k \in CallsOf(c, "create_enhanced_comment_with_image") : n < k
          /\ c.outcome \in FailuresBeforeMark => c.marks = 0
    /\ \A k \in DOMAIN marked :
          \E c \in Invocations :
              /\ c.marks = 1
              /\ k = <<"qr", GenerateCacheKey(c.instance_code, c.trigger.node_id,
                                              c.trigger.qr_type)>>

\* an invocation whose upload failed, followed by one that uploaded, marked
\* and commented
C13_Witness ==
    /\ Len(done) = 2
    /\ done[1].outcome = "upload_failed"
    /\ done[2].outcome = "completed"
    /\ done[2].marks = 1
    /\ done[2].calls = <<"get_approval_instance", "_find_active_qr_trigger",
                         "is_qr_recently_generated", "create_qr_in_memory",
                         "upload_image_to_approval", "mark_qr_as_generated",
                         "create_enhanced_comment_with_image">>

\* C14: an invocation in which an external collaborator call failed and
\* that reports failure has marked no cache entry.
C14_NoMarkOnFailure ==
    \A n \in 1..Len(done) :
        (done[n].failed_call # "none" /\ ~done[n].success) => done[n].marks = 0

\* ---- validation handler --------------------------------------------------
\* the validation cache keys of a sequence of results of instance_code
KeysOf(instance_code, results) ==
    {GenerateValidationCacheKey(instance_code, SpecificErrorKey(results[n]))
        : n \in 1..Len(results)}

\* the invocation got as far as the cache lookups
ReachedLookups(d) ==
    d.outcome \in {"all_cached", "alert_sent", "alert_failed"}

\* C15: an invocation marks validation keys only when its alert post
\* reported success, and then the keys of the results in the alert; every
\* marked key comes from such an invocation; after an invocation whose post
\* failed, the next invocation for the same instance and the same data
\* posts an alert that holds the same results again.
C15_MarkOnlyOnSend ==
    /\ \A c \in Invocations :
          c.marks = IF c.webhook_sent THEN Len(c.alerts_to_send) ELSE 0
    /\ \A k \in DOMAIN marked :
          \E c \in Invocations :
              /\ c.webhook_sent
              /\ k[2] \in KeysOf(c.instance_code, c.alerts_to_send)
    /\ \A n \in 1..(Len(done) - 1) :
          (/\ done[n].outcome = "alert_failed"
           /\ done[n + 1].instance_code = done[n].instance_code
           /\ done[n + 1].world = done[n].world
           /\ ReachedLookups(done[n + 1])) =>
              /\ Len(done[n + 1].alerts) = 1
              /\ \A i \in 1..Len(done[n].alerts[1]) :
                    \E j \in 1..Len(done[n + 1].alerts[1]) :
                        done[n + 1].alerts[1][j] = done[n].alerts[1][i]

\* an alert of two results whose post failed, posted again by the next
\* invocation, which marks the two keys
C15_Witness ==
    /\ Len(done) = 2
    /\ done[1].outcome = "alert_failed"
    /\ Len(done[1].alerts[1]) = 2
    /\ done[1].marks = 0
    /\ done[2].outcome = "alert_sent"
    /\ done[2].alerts = done[1].alerts
    /\ done[2].marks = 2
    /\ Cardinality(DOMAIN validation_alert_cache) = 2

\* the key of result r of instance_code was marked within the last 10
\* minutes, by the history of the mark calls
MarkedWithinTtl(instance_code, r) ==
    LET k == <<"validation",
               GenerateValidationCacheKey(instance_code, SpecificErrorKey(r))>>
    IN  /\ k \in DOMAIN marked
        /\ now - marked[k] <= ValidationCacheMinutes

\* the failing results of the data of invocation c that are not marked
UnmarkedFailing(c) ==
    SelectSeq(InvalidResults(RunAllValidations(c.world.form, c.world.task_list,
                                               DummyNodeId)),
              LAMBDA r : ~MarkedWithinTtl(c.instance_code, r))

\* the invocation in progress as it is after the step: in progress still,
\* or the last finished one
CurAfterStep == IF cur' = NoInvocation THEN done'[Len(done')] ELSE cur'

\* C16: an invocation posts at most one alert, whose messages are those of
\* the results it chose to send; the results chosen after the fetch are
\* exactly the failing results whose key was not marked within the last 10
\* minutes, in order; when there are failing results and all are marked,
\* the invocation ends there, in success, with no alert posted.
C16_OneAlertOfUnmarked ==
    /\ [](\A c \in Invocations :
            /\ Len(c.alerts) <= 1
            /\ \A a \in 1..Len(c.alerts) :
                  c.alerts[a] = [n \in 1..Len(c.alerts_to_send)
                                    |-> c.alerts_to_send[n].message])
    /\ [][(/\ cur.pc = "validation_fetch"
           /\ cur.world # None
           /\ cur' # cur) =>
              /\ CurAfterStep.alerts_to_send = UnmarkedFailing(cur)
              /\ (UnmarkedFailing(cur) = <<>>) =>
                    /\ cur' = NoInvocation
                    /\ CurAfterStep.success
                    /\ CurAfterStep.alerts = <<>>
              /\ (UnmarkedFailing(cur) # <<>>) =>
                    /\ cur'.pc = "validation_alert"
                    /\ validation_alert_cache' \in
                          {validation_alert_cache} \cup
                          {[k \in K |-> validation_alert_cache[k]]
                              : K \in SUBSET DOMAIN validation_alert_cache}]_vars

\* after an alert about the advance was posted and marked, an invocation
\* finds the advance and the payment failing and posts the payment alone
C16_Witness ==
    /\ Len(done) = 2
    /\ done[1].outcome = "alert_sent"
    /\ Len(done[1].alerts[1]) = 1
    /\ done[2].outcome = "alert_sent"
    /\ done[2].skipped_count = 1
    /\ Len(done[2].alerts) = 1
    /\ done[2].alerts[1] # done[1].alerts[1]
    /\ Len(done[2].alerts[1]) = 1

\* ---- webhook endpoint ----------------------------------------------------
\* a request has been answered
Answered == arg.fn = "handle_lark_webhook" /\ ret.done

\* the number of events published for the request
PublishedFor == Len(event_history) - arg.history_before

\* the payload is a url_verification request
IsUrlVerification(p) == p.parses /\ p.object /\ p.type = UrlVerification

\* the payload is a JSON object whose event type, where the endpoint looks
\* at it, is a string
WellTyped(p) ==
    /\ p.parses
    /\ p.object
    /\ (IsUrlVerification(p) \/ GetEventType(p).t = "str")

\* C17 as stated: every payload that parses as JSON is answered with a
\* success (the acknowledgment, or the challenge of a url_verification).
C17_AckForEveryJson ==
    (Answered /\ arg.payload.parses) => ret.value.status_code = 200

\* C17, amended: every payload that parses as a JSON object with a textual
\* event type is answered with the acknowledgment (a url_verification with
\* its challenge), whatever the handlers of the published event returned
\* or raised.
C17_AckDecoupled ==
    (Answered /\ WellTyped(arg.payload)) =>
        ret.value = IF IsUrlVerification(arg.payload)
                    THEN Challenge(GetOr(arg.payload.challenge, None))
                    ELSE Acknowledgment

\* an acknowledged request whose event went to a handler that raised and to
\* a handler that reported a failure
C17_Witness ==
    /\ Answered
    /\ ret.value = Acknowledgment
    /\ PublishedFor = 1
    /\ pub.phase = "returned"
    /\ Len(pub.results) = 2
    /\ \E n \in 1..2 : ~pub.results[n].success
    /\ \E n \in 1..2 :
          pub.results[n].success /\ pub.results[n].result.service = "reports_failure"

\* the value is there and not empty
Present(v) == Truthy(GetOr(v, None))

\* C18 as stated: a payload that is not a url_verification has one event
\* published when event.approval_code and one of event.instance_code,
\* event.object.instance_code are present, and none otherwise; a
\* url_verification is answered with its challenge and publishes nothing.
C18_PublishedIffIdentified ==
    Answered =>
        IF IsUrlVerification(arg.payload)
        THEN /\ ret.value = Challenge(GetOr(arg.payload.challenge, None))
             /\ PublishedFor = 0
        ELSE PublishedFor =
                IF /\ arg.payload.parses
                   /\ arg.payload.object
                   /\ Present(arg.payload.approval_code)
                   /\ (\/ Present(arg.payload.instance_code)
                       \/ Present(arg.payload.object_instance_code))
                THEN 1 ELSE 0

\* the payload names an approval event: its event type is a string that
\* holds "approval" in any letter case
IsApprovalEvent(p) ==
    /\ GetEventType(p).t = "str"
    /\ \E k \in 0..(Len(GetEventType(p).s) - Len(NeedleApproval)) :
          Lower(SubSeq(GetEventType(p).s, k + 1, k + Len(NeedleApproval)))
              = NeedleApproval

\* the payload carries its two identifiers: event.approval_code, and
\* event.instance_code when the event has that key, event.object.instance_code
\* when it has not
IsIdentified(p) ==
    /\ Present(p.approval_code)
    /\ IF p.instance_code # Missing THEN Truthy(p.instance_code)
       ELSE Present(p.object_instance_code)

\* C18, amended: a JSON object that is not a url_verification has one
\* "approval.instance.updated" event published when it names an approval
\* event and carries its two identifiers, and none otherwise; a payload that
\* is not a JSON object publishes nothing; a url_verification is answered
\* with its challenge and publishes nothing.
C18_PublishedIffApprovalIdentified ==
    Answered =>
        IF IsUrlVerification(arg.payload)
        THEN /\ ret.value = Challenge(GetOr(arg.payload.challenge, None))
             /\ PublishedFor = 0
        ELSE IF /\ arg.payload.parses
                /\ arg.payload.object
                /\ IsApprovalEvent(arg.payload)
                /\ IsIdentified(arg.payload)
             THEN /\ PublishedFor = 1
                  /\ event_history[Len(event_history)].event_type
                        = "approval.instance.updated"
             ELSE PublishedFor = 0

\* an answered approval event whose instance code came from event.object,
\* with one event published for it
C18_Witness ==
    /\ Answered
    /\ arg.payload.parses
    /\ arg.payload.object
    /\ arg.payload.instance_code = Missing
    /\ arg.payload.object_instance_code # Missing
    /\ PublishedFor = 1
    /\ Len(event_history) = 2

\* ---- trigger resolver: the visiting order ---------------------------------
\* the positions, in the task list, of the tasks whose name contains the
\* needle of configuration c
MatchingPositions(c) ==
    {k \in 1..Len(arg.task_list) :
        IsSubstring(arg.qr_trigger_configs[c].node_name_contains,
                    arg.task_list[k].node_name)}

\* C19: for every configuration the i-th task examined is the i-th task of
\* the task list whose name contains the needle, whatever the names of the
\* matching tasks; the round of a returned trigger is therefore the ordinal
\* position of its task among the matching tasks of the task list.
C19_TaskListOrder ==
    (arg.fn = "find_active_qr_trigger" /\ ret.done) =>
        /\ \A c \in 1..Len(arg.qr_trigger_configs) :
              \A k \in MatchingPositions(c) :
                  Candidates(c)[Cardinality({j \in MatchingPositions(c) : j <= k})]
                      = arg.task_list[k]
        /\ ret.value.found =>
              \E c \in 1..Len(arg.qr_trigger_configs), k \in 1..Len(arg.task_list) :
                  /\ arg.qr_trigger_configs[c].qr_type = ret.value.qr_type
                  /\ arg.task_list[k].node_id = ret.value.node_id
                  /\ k \in MatchingPositions(c)
                  /\ ret.value.trigger_round
                        = Cardinality({j \in MatchingPositions(c) : j <= k})

\* ---- QR processor: a failed comment -------------------------------------
\* invocation d resolved the trigger of invocation c again
SameTrigger(c, d) ==
    /\ d.trigger.found
    /\ d.instance_code = c.instance_code
    /\ d.trigger.node_id = c.trigger.node_id
    /\ d.trigger.qr_type = c.trigger.qr_type

\* C20: an invocation whose upload succeeded and whose comment post failed
\* reports failure with its dedup entry marked; while no more than the 5
\* minutes of the TTL have passed the entry is still in the cache, and every
\* later invocation that resolves the same (instance, node, type) ends as a
\* duplicate skip, in success, without an upload or a comment.
C20_CommentFailurePoisons ==
    \A i \in 1..Len(done) :
        done[i].outcome = "comment_failed" =>
            /\ ~done[i].success
            /\ done[i].uploads = 1
            /\ done[i].comments = 0
            /\ done[i].marks = 1
            /\ now <= QR_CACHE_DURATION_MINUTES =>
                  /\ GenerateCacheKey(done[i].instance_code, done[i].trigger.node_id,
                                      done[i].trigger.qr_type)
                        \in DOMAIN qr_generation_cache
                  /\ \A j \in (i + 1)..Len(done) :
                        SameTrigger(done[i], done[j]) =>
                            /\ done[j].success
                            /\ done[j].outcome = "duplicate"
                            /\ done[j].uploads = 0
                            /\ done[j].marks = 0
                            /\ CallsOf(done[j], "upload_image_to_approval") = {}
                            /\ CallsOf(done[j], "create_enhanced_comment_with_image") = {}

\* a failed comment followed, 5 minutes after the mark, by an invocation
\* for the same trigger that is skipped as a duplicate
C20_Witness ==
    /\ Len(done) = 2
    /\ done[1].outcome = "comment_failed"
    /\ SameTrigger(done[1], done[2])
    /\ done[2].outcome = "duplicate"
    /\ now = QR_CACHE_DURATION_MINUTES
    /\ lookup.cache = "qr"
    /\ lookup.at = lookup.markedAt + QR_CACHE_DURATION_MINUTES

\* ---- QR processor: two deliveries for one trigger ---------------------------
\* the invocation c has observed "not recently seen" and has not marked yet
InCheckThenActWindow(c) ==
    /\ c # NoInvocation
    /\ c.pc = "upload"
    /\ c.marks = 0

\* another invocation for the trigger of the invocation in progress begins
SecondDelivery ==
    \/ /\ HandleApprovalEvent(cur.instance_code, cur.approval_code, None, cur.world)
       /\ UNCHANGED <<fnVars, busVars>>
    \/ /\ ProcessApprovalWithQrComment(cur.instance_code, cur.approval_code, cur.world)
       /\ UNCHANGED <<fnVars, busVars>>

\* C21: the check and the mark of an invocation are not atomic: while an
\* invocation that has observed "not recently seen" is suspended at its
\* upload, a second invocation for the same (instance, node, action) can
\* run, make the same observation, and upload, comment and mark as well.
C21_CheckThenActRace ==
    (InCheckThenActWindow(cur) /\ Len(done) + 1 < MaxInvocations)
        => ENABLED SecondDelivery

\* two invocations for one trigger never both upload and mark within the 5
\* minutes of the TTL: the second one is stopped by the entry of the first.
C21_Serialized ==
    \A i, j \in 1..Len(done) :
        (/\ i < j
         /\ done[i].marks = 1
         /\ SameTrigger(done[i], done[j])
         /\ now <= QR_CACHE_DURATION_MINUTES)
            => done[j].uploads = 0 /\ done[j].marks = 0


\* ---- validation handler: the results that are alerted ----------------------
\* the validation invocations that have run the rules
RanRules(c) ==
    /\ c.entry = "validation"
    /\ c.world # None
    /\ CallsOf(c, "get_approval_instance") # {}

\* the results run_all_validations returned to invocation c whose status is
\* in `statuses`
ResultsWithStatus(c, statuses) ==
    SelectSeq(c.validation_results, LAMBDA r : r.status \in statuses)

\* In every validation invocation that ran the rules: the results looked up
\* in the cache are as many as the results with a status in `statuses`, the
\* results chosen for the alert and the messages of every alert posted come
\* from results with such a status, and so does every validation key marked.
AlertsOnlyFor(statuses) ==
    /\ \A c \in Invocations :
          RanRules(c) =>
             LET rs == ResultsWithStatus(c, statuses)
                 messages == {rs[k].message : k \in 1..Len(rs)}
             IN  /\ Len(c.alerts_to_send) + c.skipped_count = Len(rs)
                 /\ \A n \in 1..Len(c.alerts_to_send) :
                       c.alerts_to_send[n].status \in statuses
                 /\ \A a \in 1..Len(c.alerts) : \A n \in 1..Len(c.alerts[a]) :
                       c.alerts[a][n] \in messages
    /\ \A k \in DOMAIN marked :
          k[1] = "validation" =>
             \E c \in Invocations :
                 /\ RanRules(c)
                 /\ k[2] \in KeysOf(c.instance_code, ResultsWithStatus(c, statuses))

\* C22 (as claimed): only results with status INVALID are looked up in the
\* validation cache, contribute a message to an alert or have their key
\* marked; a result with status ERROR, SKIPPED or VALID never does.
C22_OnlyInvalidAlerted == AlertsOnlyFor({"INVALID"})

\* C22: only results that are not valid, that is with status INVALID or
\* ERROR, are looked up in the validation cache, contribute a message to an
\* alert or have their key marked; a SKIPPED or VALID result never does.
C22_OnlyFailingAlerted == AlertsOnlyFor({"INVALID", "ERROR"})

\* an alert was posted and marked for an instance whose rules gave an
\* INVALID result, and one for an instance whose rules gave an ERROR result
\* next to VALID and SKIPPED ones
C22_Witness ==
    /\ Len(done) = 2
    /\ \A n \in 1..2 : RanRules(done[n]) /\ done[n].outcome = "alert_sent"
    /\ Len(ResultsWithStatus(done[1], {"INVALID"})) > 0
    /\ Len(ResultsWithStatus(done[2], {"ERROR"})) = 1
    /\ Len(ResultsWithStatus(done[2], {"VALID", "SKIPPED"})) > 0
    /\ done[2].marks = 1


\* ---- validation rules: isolation -------------------------------------------
\* round i of the advance rule compares two present values of which one is
\* not a number
AdvanceUnparsable(i) ==
    /\ ~AdvanceSideAbsent(i)
    /\ ~(Parses(AdvanceDeclared(i)) /\ Parses(AdvanceAccountant[i]))
PaymentUnparsable ==
    /\ PaymentAccountant # None /\ PaymentOther # None
    /\ ~(Parses(PaymentAccountant) /\ Parses(PaymentOther))
ResultsOf(type) ==
    {n \in 1..Len(ret.value) : ret.value[n].validation_type = type}

\* C23: run_all_validations returns (it does not raise) at least one result
\* of every registered rule, whatever the other rules have found; a rule
\* whose amount input is present and is not a number yields a result with
\* status ERROR, and no INVALID result instead.
C23_RuleIsolation ==
    (arg.fn = "run_all_validations" /\ ret.done) =>
        /\ \A type \in RegisteredRules : ResultsOf(type) # {}
        /\ PaymentUnparsable =>
              \A n \in ResultsOf("PAYMENT_AMOUNT_MISMATCH") :
                  ret.value[n].status = "ERROR"
        /\ \A i \in 1..AdvanceRounds :
              AdvanceUnparsable(i) =>
                 /\ \E n \in ResultsOf("ADVANCE_AMOUNT_MISMATCH") :
                        ret.value[n].status = "ERROR"
                 /\ ~InvalidForRound(i)

\* the parts of C23 that hold: a result of every rule, and ERROR from the
\* payment rule
C23_EveryRuleAnswers ==
    (arg.fn = "run_all_validations" /\ ret.done) =>
        /\ \A type \in RegisteredRules : ResultsOf(type) # {}
        /\ PaymentUnparsable =>
              \A n \in ResultsOf("PAYMENT_AMOUNT_MISMATCH") :
                  ret.value[n].status = "ERROR"


\* ---- validation rules: the shape of the advance result ---------------------
\* the rows of the first top-level fieldList of the form that carries `name`
GroupRows(name) ==
    LET hits == {k \in 1..Len(arg.form_data) :
                    /\ arg.form_data[k].name = name
                    /\ arg.form_data[k].type = "fieldList"}
    IN  IF hits = {} THEN <<>> ELSE FieldListRows(arg.form_data[Min(hits)])

\* the amount of row r of the group: None when the group has no such row,
\* the row has no such field, or the field holds null
RowAmount(name, r) ==
    IF r > Len(GroupRows(name)) THEN None
    ELSE LET row  == GroupRows(name)[r]
             hits == {k \in 1..Len(row) : row[k].name = EXPENDITURE_AMOUNT}
         IN  IF hits = {} THEN None ELSE GetValue(row[Min(hits)])

AdvanceBothPresent(i) ==
    AdvanceDeclared(i) # None /\ RowAmount(ACCOUNTING_ADVANCE_INFO, i) # None
AdvanceOneSided(i) ==
    (AdvanceDeclared(i) = None) # (RowAmount(ACCOUNTING_ADVANCE_INFO, i) = None)
InvalidsOfRound(i) ==
    {k \in 1..Len(ret.value) :
        ret.value[k].status = "INVALID" /\ ret.value[k].message.i = i}
IsOnly(status) == Len(ret.value) = 1 /\ ret.value[1].status = status

\* C24: over rounds 1..4 the advance rule emits exactly one INVALID result
\* for every round whose declared amount and whose i-th accounting row
\* amount are both present and differ, and none for a round with data on one
\* side only; its result is one VALID and nothing else when some round was
\* compared and every compared round matched, one SKIPPED and nothing else
\* when no round has data on either side, and never VALID when no round has
\* data on both sides.
C24_AdvanceShape ==
    (arg.fn = "validate_advance_amount_mismatch" /\ ret.done) =>
        /\ \A i \in 1..AdvanceRounds :
              /\ (/\ AdvanceBothPresent(i)
                  /\ AdvanceDeclared(i) # RowAmount(ACCOUNTING_ADVANCE_INFO, i))
                    => Cardinality(InvalidsOfRound(i)) = 1
              /\ AdvanceOneSided(i) => InvalidsOfRound(i) = {}
        /\ (/\ \E i \in 1..AdvanceRounds : AdvanceBothPresent(i)
            /\ \A i \in 1..AdvanceRounds :
                  AdvanceBothPresent(i) =>
                     AdvanceDeclared(i) = RowAmount(ACCOUNTING_ADVANCE_INFO, i)
            /\ \A i \in 1..AdvanceRounds :
                  AdvanceBothPresent(i) \/ ~AdvanceOneSided(i))
              => IsOnly("VALID")
        /\ (\A i \in 1..AdvanceRounds :
               /\ AdvanceDeclared(i) = None
               /\ RowAmount(ACCOUNTING_ADVANCE_INFO, i) = None)
              => IsOnly("SKIPPED")
        /\ (\A i \in 1..AdvanceRounds : ~AdvanceBothPresent(i))
              => \A k \in 1..Len(ret.value) : ret.value[k].status # "VALID"

\* every row of the accounting-advance group carries the amount field once
AdvanceRowsComplete ==
    \A r \in 1..Len(GroupRows(ACCOUNTING_ADVANCE_INFO)) :
        Cardinality({k \in 1..Len(GroupRows(ACCOUNTING_ADVANCE_INFO)[r]) :
                        GroupRows(ACCOUNTING_ADVANCE_INFO)[r][k].name
                            = EXPENDITURE_AMOUNT}) = 1

\* the parts of C24 that hold when every accounting row carries its amount
\* field: the INVALID result of a round whose two values differ, the single
\* VALID of forms whose every round with data has two equal values, the
\* single SKIPPED of forms without advance data
C24_ShapeOnCompleteRounds ==
    (arg.fn = "validate_advance_amount_mismatch" /\ ret.done
        /\ AdvanceRowsComplete) =>
        /\ \A i \in 1..AdvanceRounds :
              (/\ AdvanceBothPresent(i)
               /\ AdvanceDeclared(i) # RowAmount(ACCOUNTING_ADVANCE_INFO, i))
                 => Cardinality(InvalidsOfRound(i)) = 1
        /\ (/\ \E i \in 1..AdvanceRounds : AdvanceBothPresent(i)
            /\ \A i \in 1..AdvanceRounds :
                  AdvanceBothPresent(i) =>
                     AdvanceDeclared(i) = RowAmount(ACCOUNTING_ADVANCE_INFO, i)
            /\ \A i \in 1..AdvanceRounds :
                  AdvanceBothPresent(i) \/ ~AdvanceOneSided(i))
              => IsOnly("VALID")
        /\ (\A i \in 1..AdvanceRounds :
               /\ AdvanceDeclared(i) = None
               /\ RowAmount(ACCOUNTING_ADVANCE_INFO, i) = None)
              => IsOnly("SKIPPED")


\* ---- validation rules: the payment comparison ------------------------------
\* the value of the first top-level field of the form that carries `name`,
\* None when there is none or it holds null
TopLevelValue(name) ==
    LET hits == {k \in 1..Len(arg.form_data) : arg.form_data[k].name = name}
    IN  IF hits = {} THEN None ELSE GetValue(arg.form_data[Min(hits)])

\* the first amount field of the group in row order: its value
FirstGroupAmount(name) ==
    LET rows == GroupRows(name)
        with == {r \in 1..Len(rows) :
                    \E k \in 1..Len(rows[r]) : rows[r][k].name = EXPENDITURE_AMOUNT}
    IN  IF with = {} THEN None ELSE RowAmount(name, Min(with))

\* the payment rule compared the accounting amount with the field `name`
\* holding `other`: a result decided by these two values, that names the
\* field when it reports a mismatch
ComparedWith(name, other) ==
    LET accountant == FirstGroupAmount(ACCOUNTING_PAYMENT_INFO)
    IN  /\ ret.value.status # "SKIPPED"
        /\ (Parses(accountant) /\ Parses(other)) =>
              /\ accountant = other => ret.value.status = "VALID"
              /\ accountant # other =>
                    /\ ret.value.status = "INVALID"
                    /\ ret.value.message.field = name
                    /\ ret.value.message.compare_amount = other.n
        /\ ~(Parses(accountant) /\ Parses(other)) => ret.value.status = "ERROR"

\* C25: the payment rule compares the expenditure amount of the
\* accounting-payment group with the remaining payment amount whenever that
\* field has a value, also when the payment amount has one too, and with the
\* payment amount only when the remaining payment amount has none; its
\* result is SKIPPED whenever the accounting amount is absent or both of
\* the other fields are.
C25_RemainingFirst ==
    (arg.fn = "validate_payment_amount_mismatch" /\ ret.done) =>
        LET accountant == FirstGroupAmount(ACCOUNTING_PAYMENT_INFO)
            due  == TopLevelValue(REMAINING_PAYMENT_AMOUNT)
            paid == TopLevelValue(PAYMENT_AMOUNT)
        IN  IF accountant = None \/ (due = None /\ paid = None)
            THEN ret.value.status = "SKIPPED"
            ELSE IF due # None
                 THEN ComparedWith(REMAINING_PAYMENT_AMOUNT, due)
                 ELSE ComparedWith(PAYMENT_AMOUNT, paid)

\* both fields have a value, the accounting amount equals the remaining
\* payment amount and not the payment amount, and the result is VALID
C25_Witness ==
    /\ arg.fn = "validate_payment_amount_mismatch" /\ ret.done
    /\ TopLevelValue(REMAINING_PAYMENT_AMOUNT) = Num(10000)
    /\ TopLevelValue(PAYMENT_AMOUNT) = Num(10002)
    /\ FirstGroupAmount(ACCOUNTING_PAYMENT_INFO) = Num(10000)
    /\ ret.value.status = "VALID"


\* ---- field extractor: the values of a repeating group ----------------------
\* the values the fields of row r of the named group hold under the target
\* name
ValuesOfRow(r) ==
    LET row == GroupRows(arg.fieldlist_name)[r]
    IN  {GetValue(row[k]) : k \in {j \in 1..Len(row) :
                                      row[j].name = arg.target_field_name}}

\* C26: extract_all_values_from_fieldlist returns one value for every row of
\* the named group, in row order: the i-th value is a value of the i-th row
\* (null for a row without the field), also when a row lacks the target
\* field or carries it more than once.
C26_OneValuePerRow ==
    (arg.fn = "extract_all_values_from_fieldlist" /\ ret.done) =>
        /\ Len(ret.value) = Len(GroupRows(arg.fieldlist_name))
        /\ \A r \in 1..Len(ret.value) :
              IF ValuesOfRow(r) = {} THEN ret.value[r] = None
              ELSE ret.value[r] \in ValuesOfRow(r)

\* the part of C26 that holds: when every row carries the target field
\* once, the i-th value is the value of the i-th row
C26_AlignedOnCompleteRows ==
    (/\ arg.fn = "extract_all_values_from_fieldlist" /\ ret.done
     /\ \A r \in 1..Len(GroupRows(arg.fieldlist_name)) :
           Cardinality({j \in 1..Len(GroupRows(arg.fieldlist_name)[r]) :
                           GroupRows(arg.fieldlist_name)[r][j].name
                               = arg.target_field_name}) = 1) =>
        /\ Len(ret.value) = Len(GroupRows(arg.fieldlist_name))
        /\ \A r \in 1..Len(ret.value) : ValuesOfRow(r) = {ret.value[r]}


\* ---- QR handler: configuration errors --------------------------------------
\* the field mapping of the workflow of invocation c lacks one of the three
\* bank fields
MappingIncomplete(c) ==
    /\ GetWorkflowConfig(c.approval_code) # None
    /\ LET m == GetWorkflowConfig(c.approval_code).field_mappings
       IN  ~(Truthy(m.bank_name) /\ Truthy(m.account_number)
             /\ Truthy(m.beneficiary_name))

\* the invocation c got past the handler's own checks: its event names the
\* instance and a workflow, is not in a final status, and the token request
\* did not fail
ReachesProcessor(c) ==
    /\ c.entry \in {"handler", "processor"}
    /\ c.instance_code # NoInstanceCode
    /\ c.approval_code # NoApprovalCode
    /\ c.status \notin TerminalStatuses
    /\ c.failed_call # "get_access_token"

NoSideEffect(c) ==
    /\ CallsOf(c, "create_qr_in_memory") = {}
    /\ CallsOf(c, "upload_image_to_approval") = {}
    /\ CallsOf(c, "create_enhanced_comment_with_image") = {}
    /\ c.uploads = 0 /\ c.comments = 0 /\ c.marks = 0

\* C27: an invocation for an approval_code without workflow configuration
\* ends in success as a no-op, without an instance fetch, a side effect or a
\* cache write; an invocation that finds an active trigger in a workflow
\* whose field mapping lacks a bank field ends in failure, without a
\* rendering, an upload, a comment or a cache write.
C27_ConfigErrors ==
    \A n \in 1..Len(done) :
        ReachesProcessor(done[n]) =>
            /\ GetWorkflowConfig(done[n].approval_code) = None =>
                  /\ done[n].success
                  /\ CallsOf(done[n], "get_approval_instance") = {}
                  /\ NoSideEffect(done[n])
            /\ (MappingIncomplete(done[n]) /\ TriggerIsActive(done[n])
                    /\ done[n].failed_call = "none") =>
                  /\ ~done[n].success
                  /\ NoSideEffect(done[n])

\* what holds of the calls of the processor: the no-op without a fetch for
\* a workflow without configuration; for an incomplete mapping no side
\* effect, and failure unless the duplicate check ended the call before
C27_ProcessorConfigErrors ==
    \A n \in 1..Len(done) :
        done[n].entry = "processor" =>
            /\ GetWorkflowConfig(done[n].approval_code) = None =>
                  /\ done[n].success
                  /\ done[n].calls = <<>>
                  /\ NoSideEffect(done[n])
            /\ (MappingIncomplete(done[n]) /\ TriggerIsActive(done[n])
                    /\ done[n].failed_call = "none") =>
                  /\ NoSideEffect(done[n])
                  /\ done[n].outcome \in {"missing_field_mapping", "duplicate"}
                  /\ done[n].success = (done[n].outcome = "duplicate")


\* ---- QR handler: the amount of the QR ---------------------------------------
\* what the trigger resolver finds for invocation c
ResolvedTrigger(c) ==
    IF c.world = None \/ GetWorkflowConfig(c.approval_code) = None
    THEN NoTrigger
    ELSE FindActiveQrTrigger(c.world.task_list, c.world.form,
             GetWorkflowConfig(c.approval_code).qr_trigger_nodes)

\* the amount is absent, non-numeric, zero or negative
AmountAbsent(amount)      == amount \in {None, Missing}
AmountNonNumeric(amount)  == ~AmountAbsent(amount) /\ ~Parses(amount)
AmountNotPositive(amount) ==
    ~AmountAbsent(amount) /\ Parses(amount) /\ amount.n <= 0
AmountInvalid(amount) ==
    AmountAbsent(amount) \/ AmountNonNumeric(amount) \/ AmountNotPositive(amount)

\* invocation c has rendered or uploaded a QR
HasRendered(c) == CallsOf(c, "create_qr_in_memory") # {} \/ c.uploads > 0

\* the amount is a number whose integer part is at least 1
IsPositiveInteger(amount) ==
    ~AmountAbsent(amount) /\ Parses(amount) /\ IntOf(amount.n) >= 1

\* C28 as stated: a QR is rendered and uploaded only with an amount that is a
\* positive integer, and every invocation whose resolved amount is absent,
\* non-numeric, zero or negative ends in failure without a rendering, an
\* upload, a comment or a cache write.
C28_InvalidAmountFails ==
    \A n \in 1..Len(done) :
        LET trigger == ResolvedTrigger(done[n])
        IN  /\ HasRendered(done[n]) =>
                  trigger.found /\ IsPositiveInteger(trigger.amount)
            /\ (trigger.found /\ AmountInvalid(trigger.amount)) =>
                  /\ ~done[n].success
                  /\ NoSideEffect(done[n])

\* C28: a QR is rendered and uploaded only with an amount that is a positive
\* integer; an invocation whose resolved amount is absent, non-numeric, zero
\* or negative has no rendering, upload, comment or cache write, and it ends
\* in failure unless the duplicate check, which comes before the amount is
\* looked at, ended it as a skipped duplicate.
C28_InvalidAmountFailsUnlessDuplicate ==
    \A n \in 1..Len(done) :
        LET trigger == ResolvedTrigger(done[n])
        IN  /\ HasRendered(done[n]) =>
                  trigger.found /\ IsPositiveInteger(trigger.amount)
            /\ (trigger.found /\ AmountInvalid(trigger.amount)) =>
                  /\ NoSideEffect(done[n])
                  /\ done[n].success => done[n].outcome = "duplicate"
                  /\ (done[n].entry = "processor" /\ ~done[n].success) =>
                        done[n].outcome = "invalid_amount"

\* an invocation with a negative amount has failed on the amount and another
\* one has rendered and uploaded a QR
C28_Witness ==
    /\ \E n \in 1..Len(done) :
          /\ done[n].outcome = "invalid_amount"
          /\ AmountNotPositive(done[n].trigger.amount)
          /\ done[n].trigger.amount.n < 0
    /\ \E n \in 1..Len(done) : done[n].uploads > 0


\* ---- cache: eviction and marks ---------------------------------------------
\* the step is a lookup in the cache named `space`
IsLookupStep(space) == lookup'.cache = space /\ lookup' # lookup

\* dict d becomes dict e by a lookup of key k at time t under duration ttl:
\* k goes exactly when it is present and expired, nothing else changes
LookupFrame(d, e, k, t, ttl) ==
    /\ \A x \in DOMAIN d \ {k} : x \in DOMAIN e /\ e[x] = d[x]
    /\ DOMAIN e \subseteq DOMAIN d
    /\ (k \in DOMAIN d /\ t - d[k] > ttl) => k \notin DOMAIN e
    /\ (k \in DOMAIN d /\ t - d[k] <= ttl) => (k \in DOMAIN e /\ e[k] = d[k])

\* the step removes no entry of either dict
NothingRemoved ==
    /\ DOMAIN qr_generation_cache \subseteq DOMAIN qr_generation_cache'
    /\ DOMAIN validation_alert_cache \subseteq DOMAIN validation_alert_cache'

\* the step leaves both dicts empty, as clear_cache does
IsClearStep ==
    /\ lookup' = NoLookup
    /\ qr_generation_cache' = EmptyMap /\ validation_alert_cache' = EmptyMap

LookupStepFrame ==
    /\ IsLookupStep("qr") =>
          /\ LookupFrame(qr_generation_cache, qr_generation_cache',
                         lookup'.key, now, lookup'.duration)
          /\ validation_alert_cache' = validation_alert_cache
    /\ IsLookupStep("validation") =>
          /\ LookupFrame(validation_alert_cache, validation_alert_cache',
                         lookup'.key, now, lookup'.duration)
          /\ qr_generation_cache' = qr_generation_cache
    /\ (~IsLookupStep("qr") /\ ~IsLookupStep("validation")) =>
          (NothingRemoved \/ IsClearStep)

\* C29: a lookup of key k removes k from the cache exactly when k is present
\* and expired (older than the duration) and changes nothing else; a lookup
\* of an absent or unexpired key leaves both dicts unchanged; no entry is
\* removed by any step other than a lookup of its key or a clear.
C29_LazyEviction == [][LookupStepFrame]_vars

\* a lookup has just evicted its key while another expired entry, never
\* looked up, is still in the dict
C29_Witness ==
    /\ lookup.cache = "qr" /\ ~lookup.result
    /\ lookup.markedAt # NeverMarked
    /\ lookup.at - lookup.markedAt > lookup.duration
    /\ lookup.key \notin DOMAIN qr_generation_cache
    /\ \E k \in DOMAIN qr_generation_cache :
          now - qr_generation_cache[k] > QR_CACHE_DURATION_MINUTES

\* the entries of the dict of `space` carry the time of their latest mark,
\* and a marked key is missing only after its duration has run out
StampIsLatestMark(space, d, ttl) ==
    /\ \A k \in DOMAIN d : d[k] = LastMarked(space, k)
    /\ \A m \in DOMAIN marked :
          (m[1] = space /\ m[2] \notin DOMAIN d) => now - marked[m] > ttl

\* C30: a mark writes key -> now whether or not the key is present, so an
\* entry always carries the time of the latest mark of its key, and a lookup
\* reports the key seen while less than the duration has passed since the
\* latest mark and not seen once more than the duration has passed since
\* it, whenever the first mark was.
C30_MarkRestartsTtl ==
    /\ StampIsLatestMark("qr", qr_generation_cache, QR_CACHE_DURATION_MINUTES)
    /\ StampIsLatestMark("validation", validation_alert_cache, ValidationCacheMinutes)
    /\ (lookup.cache # "none" /\ lookup.markedAt # NeverMarked) =>
          /\ lookup.at < lookup.markedAt + lookup.duration => lookup.result
          /\ lookup.at > lookup.markedAt + lookup.duration => ~lookup.result

\* a key marked again is reported seen at a time when the duration counted
\* from its first mark has run out
C30_Witness ==
    /\ lookup.cache # "none" /\ lookup.result
    /\ FirstMarked(lookup.cache, lookup.key) # NeverMarked
    /\ lookup.at > FirstMarked(lookup.cache, lookup.key) + lookup.duration
    /\ lookup.at < lookup.markedAt + lookup.duration


\* ---- both handlers: external calls ------------------------------------------
\* the external collaborator calls of an invocation
ExternalCalls ==
    {"get_access_token", "get_approval_instance", "create_qr_in_memory",
     "upload_image_to_approval", "create_enhanced_comment_with_image",
     "send_validation_alert"}

AtMostOnce(c) ==
    \A name \in ExternalCalls : Cardinality(CallsOf(c, name)) <= 1

SkippedOutcomes   == {"skipped_final_status", "no_workflow_config", "no_trigger",
                      "all_valid"}
DuplicateOutcomes == {"duplicate", "all_cached"}
SucceededOutcomes == {"completed", "alert_sent", "alert_failed"}
FailedOutcomes    == {"missing_instance_code", "no_access_token", "TypeError",
                      "no_instance", "invalid_amount", "missing_field_mapping",
                      "missing_bank_info", "no_qr_image", "upload_failed",
                      "comment_failed"}

IsTerminal(c) ==
    /\ c.pc = "done"
    /\ IF c.success
       THEN c.outcome \in SkippedOutcomes \cup DuplicateOutcomes \cup SucceededOutcomes
       ELSE c.outcome \in FailedOutcomes

\* publish has returned one outcome per task, the i-th that of the i-th
\* handler subscribed to the event type when it was published
OneOutcomePerHandler ==
    pub.phase = "returned" =>
        /\ Len(pub.results) = Len(pub.tasks)
        /\ \A i \in 1..Len(pub.results) :
              BelongsTo(pub.results[i], pub.tasks[i].handler)

\* C32: with every external call returning, every handler invocation that
\* has begun ends, and ends with a terminal outcome (skipped, skipped as a
\* duplicate, succeeded or failed); every publish that has begun returns,
\* with exactly one outcome per handler subscribed to the event type.
C32_Termination ==
    /\ (cur # NoInvocation \/ pub.phase = "gathering")
           ~> (cur = NoInvocation /\ pub.phase # "gathering")
    /\ [](OneOutcomePerHandler /\ \A n \in 1..Len(done) : IsTerminal(done[n]))

\* a publish to both domain handlers has returned two outcomes after the QR
\* invocation failed and the validation invocation posted its alert
C32_Witness ==
    /\ pub.phase = "returned" /\ Len(pub.results) = 2
    /\ \E n \in 1..Len(done) :
          done[n].entry = "handler" /\ ~done[n].success
    /\ \E n \in 1..Len(done) :
          done[n].entry = "validation" /\ done[n].outcome = "alert_sent"


\* ---- QR handler: the order of the steps -------------------------------------
SideEffects ==
    {"create_qr_in_memory", "upload_image_to_approval", "mark_qr_as_generated",
     "create_enhanced_comment_with_image"}
SideEffectsOf(c) == {n \in 1..Len(c.calls) : c.calls[n] \in SideEffects}

\* the steps of invocation c stand in the order: status check, trigger
\* resolution, dedup lookup, side effects
StepsInOrder(c) ==
    /\ (c.entry = "handler" /\ c.status \in TerminalStatuses) =>
          /\ CallsOf(c, "_find_active_qr_trigger") = {}
          /\ CallsOf(c, "is_qr_recently_generated") = {}
          /\ SideEffectsOf(c) = {}
    /\ \A j \in CallsOf(c, "is_qr_recently_generated") :
          \E i \in CallsOf(c, "_find_active_qr_trigger") : i < j
    /\ \A k \in SideEffectsOf(c) :
          /\ \E j \in CallsOf(c, "is_qr_recently_generated") : j < k
          /\ \A j \in CallsOf(c, "is_qr_recently_generated") : j < k
          /\ \A i \in CallsOf(c, "_find_active_qr_trigger") : i < k
    /\ \A i \in CallsOf(c, "_find_active_qr_trigger") :
          \A j \in CallsOf(c, "is_qr_recently_generated") : i < j
    /\ (SideEffectsOf(c) # {} \/ c.uploads > 0 \/ c.comments > 0 \/ c.marks > 0) =>
          c.seen = "not_seen"

\* C33: in every invocation the final-status check comes before the trigger
\* resolution, the trigger resolution before the dedup lookup, the dedup
\* lookup before every side effect (rendering, upload, cache mark, comment),
\* and a side effect is attempted only in an invocation whose dedup lookup
\* answered "not seen".
C33_StepOrder ==
    \A c \in Invocations : StepsInOrder(c)

\* a call that was stopped as a duplicate after one that went through all
\* the steps
C33_Witness ==
    /\ Len(done) = 2
    /\ done[1].seen = "not_seen" /\ done[1].comments = 1
    /\ done[2].seen = "seen" /\ done[2].outcome = "duplicate"
    /\ done[2].calls = <<"get_approval_instance", "_find_active_qr_trigger",
                         "is_qr_recently_generated">>


\* ---- both handlers: the final-status decision -------------------------------
\* the instance the source returned to invocation c has a final status
SnapshotIsFinal(c) ==
    /\ CallsOf(c, "get_approval_instance") # {}
    /\ SnapshotStatus(c.world) \in TerminalStatuses

\* invocation c has resolved no trigger, run no rule and has no side effect
NothingDone(c) ==
    /\ CallsOf(c, "_find_active_qr_trigger") = {}
    /\ SideEffectsOf(c) = {}
    /\ CallsOf(c, "send_validation_alert") = {}
    /\ c.marks = 0
    /\ c.entry = "validation" => c.validation_results = <<>>

\* C34 as stated: whenever the instance the approval-data source returned
\* has status REJECTED, CANCELED or DELETED, the invocation ends as a skipped
\* success with no trigger resolution, validation run, upload, comment or
\* alert, also when the event itself carries no status.
C34_SnapshotDecides ==
    \A n \in 1..Len(done) :
        SnapshotIsFinal(done[n]) =>
            /\ done[n].success
            /\ done[n].outcome = "skipped_final_status"
            /\ NothingDone(done[n])

\* C34: the final-status decision is taken on the status the event carries,
\* before anything is fetched: a handler invocation for an event with status
\* REJECTED, CANCELED or DELETED ends as a skipped success without any call;
\* no other invocation is skipped for a final status, and the status of the
\* fetched instance plays no part: the validation handler runs its rules on
\* every instance it fetched.
C34_EventDecides ==
    \A n \in 1..Len(done) :
        /\ (done[n].entry # "processor" /\ done[n].instance_code # NoInstanceCode
                /\ done[n].status \in TerminalStatuses) =>
              /\ done[n].success
              /\ done[n].outcome = "skipped_final_status"
              /\ done[n].calls = <<>>
              /\ NothingDone(done[n])
        /\ done[n].outcome = "skipped_final_status" =>
              done[n].status \in TerminalStatuses
        /\ (done[n].entry = "validation" /\ done[n].world # None
                /\ CallsOf(done[n], "get_approval_instance") # {}) =>
              done[n].validation_results # <<>>

\* a validation invocation for an event without a status has fetched a
\* canceled instance and posted an alert about it, and an event that carries
\* a final status has been skipped
C34_Witness ==
    /\ \E n \in 1..Len(done) :
          /\ done[n].entry = "validation" /\ done[n].status = None
          /\ SnapshotIsFinal(done[n])
          /\ done[n].outcome = "alert_sent"
    /\ \E n \in 1..Len(done) : done[n].outcome = "skipped_final_status"


\* ---- cache: the two dicts ---------------------------------------------------
\* the step marks or looks up a key of the dict named `space`
TouchesSpace(space) ==
    \/ IsLookupStep(space)
    \/ \E m \in DOMAIN marked' :
          m[1] = space /\ (m \notin DOMAIN marked \/ marked'[m] # marked[m])

\* a step on one dict leaves the other dict as it is
SpaceFrame ==
    /\ TouchesSpace("qr") => validation_alert_cache' = validation_alert_cache
    /\ TouchesSpace("validation") => qr_generation_cache' = qr_generation_cache

\* the answer of a lookup follows from the marks of its own dict alone
AnswerFromOwnMarks ==
    lookup.cache # "none" =>
        (lookup.result <=>
            /\ lookup.markedAt # NeverMarked
            /\ lookup.at <= lookup.markedAt + lookup.duration)

\* C35: marking or looking up a QR key never changes the validation-alert
\* dict and never changes the answer of a validation-alert lookup, and the
\* other way round, also for keys that are the same string in both dicts.
C35_NamespaceSeparation ==
    []AnswerFromOwnMarks /\ [][SpaceFrame]_vars

\* the validation lookup of a key never marked as a validation key answers
\* "not seen" while the QR dict holds an unexpired entry under the same string
C35_Witness ==
    /\ lookup.cache = "validation" /\ ~lookup.result
    /\ lookup.markedAt = NeverMarked
    /\ lookup.key = GenerateCacheKey(TwinQrKey.instance_code, TwinQrKey.node_id,
                                     TwinQrKey.qr_type)
    /\ lookup.key \in DOMAIN qr_generation_cache
    /\ now - qr_generation_cache[lookup.key] <= QR_CACHE_DURATION_MINUTES


\* ---- cache: the key of a tuple ----------------------------------------------
\* the tuple t was marked at most the duration before the lookup just made
MarkedWithin(t) ==
    /\ t \in DOMAIN arg.marks
    /\ lookup.at - arg.marks[t] <= lookup.duration

\* C36: is_qr_recently_generated(instance, node, type) answers true only if
\* mark_qr_as_generated was called earlier, within the duration, with that
\* same (instance, node, type); a mark of one node never makes the lookup of
\* another node id or another instance answer true, also for node ids that
\* share their first 8 characters.
C36_DedupExact ==
    (lookup.cache = "qr" /\ arg.asked # <<>> /\ lookup.result) =>
        MarkedWithin(arg.asked)

\* what holds: a lookup answers true only if some tuple whose node id has
\* the same first 8 characters was marked within the duration
C36_ExactUpToEightCharacters ==
    (lookup.cache = "qr" /\ arg.asked # <<>> /\ lookup.result) =>
        \E t \in QrTuples :
            /\ MarkedWithin(t)
            /\ t[1] = arg.asked[1] /\ t[3] = arg.asked[3]
            /\ ShortNodeId(t[2]) = ShortNodeId(arg.asked[2])


\* ---- validation handler: what a mark stands for -----------------------------
\* invocation n of `done` ran for the instance of invocation j, earlier
EarlierForSameInstance(n, j) ==
    n < j /\ done[n].instance_code = done[j].instance_code

\* C37: a validation-alert key is marked only if an alert carrying that
\* result was actually posted to the notification webhook; when alerting
\* is disabled or nothing is posted, a following event within 10 minutes
\* is not suppressed as already alerted.
C37_MarkedOnlyIfPosted ==
    \A j \in 1..Len(done) :
        /\ done[j].marks > 0 => j \in arg.posted
        /\ done[j].skipped_count > 0 =>
               \E n \in arg.posted : EarlierForSameInstance(n, j)

\* what holds: with alerting enabled, keys are marked only by an invocation
\* whose post was answered with status 200, and only results alerted by
\* such an invocation are suppressed
C37_MarkedOnlyIfPostedWhenEnabled ==
    arg.ENABLE_VALIDATION_ALERTS => C37_MarkedOnlyIfPosted

\* what holds with any settings: keys are marked only after the webhook
\* service reported success
C37_MarkedOnlyOnReportedSuccess ==
    \A j \in 1..Len(done) :
        /\ done[j].marks > 0 => done[j].webhook_sent
        /\ done[j].skipped_count > 0 =>
               \E n \in 1..Len(done) :
                   EarlierForSameInstance(n, j) /\ done[n].webhook_sent


\* ---- validation handler: two deliveries for one instance -------------------
\* the invocation c has found failing results unmarked and has not marked yet
InAlertWindow(c) ==
    /\ c # NoInvocation
    /\ c.pc = "validation_alert"
    /\ c.marks = 0

\* another validation invocation for the instance of the one in progress
\* begins
SecondValidationDelivery ==
    /\ ValidationHandleApprovalEvent(cur.instance_code, cur.approval_code,
                                     None, None, cur.world)
    /\ UNCHANGED <<fnVars, busVars>>

\* the results invocation c set out to alert
AlertedBy(c) == { c.alerts_to_send[n] : n \in 1..Len(c.alerts_to_send) }

\* C38: the validation handler's check and mark are not atomic: while an
\* invocation that found a failing result unmarked is suspended at the
\* alert post, a second invocation for the same instance can run, find the
\* same result unmarked, and post an alert for it as well within one
\* 10-minute window.
C38_ValidationRace ==
    (InAlertWindow(cur) /\ Len(done) + 1 < MaxInvocations)
        => ENABLED SecondValidationDelivery

\* once an invocation has marked, no later invocation for the instance sets
\* out to alert one of its results again within the 10 minutes
C38_Serialized ==
    \A i, j \in 1..Len(done) :
        (/\ i < j
         /\ done[i].marks > 0
         /\ done[i].instance_code = done[j].instance_code
         /\ now <= ValidationCacheMinutes)
            => AlertedBy(done[i]) \cap AlertedBy(done[j]) = {}


\* ---- event bus: subscriptions and the frame of publish ----------------------
\* how many entries of the sequence q are the handler h
Occurrences(q, h) == Cardinality({i \in 1..Len(q) : q[i] = h})

\* the publish in progress or just returned runs one task per subscription
\* of its own event type at the time of the call, in the list's order, and
\* returns one outcome per task
TasksAreSubscriptions ==
    pub.phase # "idle" =>
        LET subscribed == Subscribed(pub.event_type)
            record == event_history[pub.history_before + 1]
        IN  /\ record.event_type = pub.event_type
            /\ Len(pub.tasks) = record.handlers_count
            /\ Len(pub.tasks) <= Len(subscribed)
            /\ \A i \in 1..Len(pub.tasks) :
                   pub.tasks[i].handler = subscribed[i]
            /\ \A h \in HandlerPool :
                   Len(pub.tasks) = Len(subscribed) =>
                       Occurrences([i \in 1..Len(pub.tasks) |-> pub.tasks[i].handler], h)
                           = Occurrences(subscribed, h)
            /\ pub.phase = "returned" =>
                   /\ Len(pub.results) = Len(pub.tasks)
                   /\ \A i \in 1..Len(pub.tasks) :
                          pub.results[i] = RunHandlerSafe(subscribed[i])

\* a step that changes the registration map appends one handler to the
\* list of one event type and is no step of publish; every step of publish
\* leaves the map as it is
RegistrationFrame ==
    /\ handlers' # handlers =>
           /\ \E t \in EventTypes, h \in HandlerPool :
                  handlers' = Put(handlers, t, Append(Subscribed(t), h))
           /\ CountSubscriptions(EventTypes)' = CountSubscriptions(EventTypes) + 1
           /\ UNCHANGED <<event_history, pub>>
    /\ (event_history' # event_history \/ pub' # pub) => handlers' = handlers

\* C39: each subscribe call appends one entry, so a handler subscribed k
\* times to an event type is invoked k times per publish of that type;
\* publish invokes only the handlers subscribed to exactly the published
\* event type, returns as many outcomes as there are subscriptions for it,
\* and never modifies the handler registration map.
C39_SubscriptionFrame == []TasksAreSubscriptions /\ [][RegistrationFrame]_vars

\* a publish has returned two outcomes of one handler subscribed twice to
\* the published event type
C39_Witness ==
    /\ pub.phase = "returned"
    /\ Len(Subscribed(pub.event_type)) = 2
    /\ Subscribed(pub.event_type)[1] = Subscribed(pub.event_type)[2]
    /\ Len(pub.results) = 2
    /\ pub.results[1] = pub.results[2]
    /\ \A i \in 1..2 : pub.tasks[i].state = "done"


\* ---- event history -------------------------------------------------------
\* C11: the retained event history never holds more than N records, N being
\* the number of records get_event_history hands out by default; a publish
\* that would exceed N drops the oldest record.
C11_BoundedHistory ==
    Len(event_history) <= HISTORY_LIMIT

====
